---- MODULE Spec2Model ----
(***************************************************************************)
(* A model of synest: the MPRIS monitor (internal/monitor), its player     *)
(* registry and metadata parser, and the debounce/dispatch engine          *)
(* (internal/engine).                                                      *)
(*                                                                         *)
(* Bus names, well-known ("org.mpris.MediaPlayer2.spotify") and unique     *)
(* (":1.50"), are sequences of their dot-separated components; the empty   *)
(* string is the empty sequence.  A dynamically typed bus value            *)
(* (dbus.Variant, interface{}) is a record whose field k is its dynamic    *)
(* type and whose other fields hold the value under each type.             *)
(***************************************************************************)
EXTENDS Integers, Sequences, FiniteSets, TLC

\* ------------------------------------------------------------------------
\* Program constants and bounds of the model
\* ------------------------------------------------------------------------

\* capacity of the events channel, make(chan domain.MediaMetadata, 10)
QueueCap == 10

\* number of Start/Stop invocations, made at any time, in the lifecycle
\* specification
MaxCalls == 3

\* number of Start/Stop invocations, each made when the earlier ones have
\* returned or block, in the restart specification
MaxSeqCalls == 4

\* number of signals the bus delivers in the lifecycle specifications
MaxSignals == 1

\* number of signals the bus delivers in the signal specification
MaxSigSignals == 2

\* the engine: calls of Engine.Stop, snapshots put on Events(), the time the
\* clock stops at and the most it advances in one step (ms)
MaxStops == 2
MaxArrivals == 3
MaxBusEvents == 3
MaxStartCalls == 3
MaxClock == 1500
MaxLockSignals == 3
MaxReaders == 2
TickMs == 250

\* the drain specification: the snapshots the monitor emits
MaxDrain == 2

\* the warning specification: the time it covers and the step of its clock,
\* in milliseconds
MaxWarnClock == 10000
WarnTickMs == 2500

\* ------------------------------------------------------------------------
\* Bus names
\* ------------------------------------------------------------------------

EmptyName == << >>

\* "org.mpris.MediaPlayer2." : the components before the trailing dot
PlayerPrefix == <<"org", "mpris", "MediaPlayer2">>

Spotify == <<"org", "mpris", "MediaPlayer2", "spotify">>
Vlc == <<"org", "mpris", "MediaPlayer2", "vlc">>
OtherService == <<"com", "example", "service">>
\* the namespace root itself: no trailing dot, so not a player name
MprisRoot == <<"org", "mpris", "MediaPlayer2">>

\* the player names of the bus specification
BusNames == {Spotify, Vlc}

U1 == <<":1", "50">>
U2 == <<":1", "51">>

\* strings.HasPrefix(name, "org.mpris.MediaPlayer2.")
HasPlayerPrefix(name) ==
    /\ Len(name) > Len(PlayerPrefix)
    /\ SubSeq(name, 1, Len(PlayerPrefix)) = PlayerPrefix

\* ------------------------------------------------------------------------
\* Dynamically typed values of the metadata property bag
\* ------------------------------------------------------------------------

\* one entry of map[string]dbus.Variant: absent key, string, []string, other
Absent == [k |-> "absent", s |-> "", l |-> << >>]
Str(x) == [k |-> "string", s |-> x, l |-> << >>]
Strs(xs) == [k |-> "strings", s |-> "", l |-> xs]
Other == [k |-> "other", s |-> "", l |-> << >>]

\* a property bag; nil is the nil map (no key present)
NilBag ==
    [nil |-> TRUE, title |-> Absent, artist |-> Absent, album |-> Absent,
     artUrl |-> Absent]

Bag(t, a, al, u) ==
    [nil |-> FALSE, title |-> t, artist |-> a, album |-> al, artUrl |-> u]

\* the zero value of domain.MediaMetadata has Status "" ; parseMetadata always
\* sets it
StatusPlaying == "Playing"
StatusPaused == "Paused"
StatusStopped == "Stopped"

\* a mutant of ParseStatus: every token passed through unchanged
ParseStatusVerbatim(status) == status

\* parseMetadata, the status switch
ParseStatus(status) ==
    CASE status = "Playing" -> StatusPlaying
      [] status = "Paused" -> StatusPaused
      [] status = "Stopped" -> StatusStopped
      [] OTHER -> StatusStopped

\* a mutant of StringField: a value of another type is rendered as text
StringFieldRendered(v) ==
    IF v.k = "string" THEN v.s ELSE IF v.k = "absent" THEN "" ELSE "<value>"

\* if v, ok := metadata[key]; ok { if s, ok := v.Value().(string); ok {...} }
StringField(v) == IF v.k = "string" THEN v.s ELSE ""

\* a mutant of ArtistField: only the sequence case
ArtistFieldSequenceOnly(v) ==
    IF v.k = "strings" /\ Len(v.l) > 0 THEN v.l[1] ELSE ""

\* the artist type switch
ArtistField(v) ==
    CASE v.k = "strings" -> IF Len(v.l) > 0 THEN v.l[1] ELSE ""
      [] v.k = "string" -> v.s
      [] OTHER -> ""

\* parseMetadata(metadata, status)
parseMetadata(metadata, status) ==
    IF metadata.nil
    THEN [Title |-> "", Artist |-> "", Album |-> "", ArtUrl |-> "",
          Status |-> ParseStatus(status)]
    ELSE [Title |-> StringField(metadata.title),
          Artist |-> ArtistField(metadata.artist),
          Album |-> StringField(metadata.album),
          ArtUrl |-> StringField(metadata.artUrl),
          Status |-> ParseStatus(status)]

\* ------------------------------------------------------------------------
\* Results of bus calls
\* ------------------------------------------------------------------------

\* GetProperty(..., "...Player.Metadata"): an error, a map, or another type
MdErr == [err |-> TRUE, k |-> "other", bag |-> NilBag]
MdMap(b) == [err |-> FALSE, k |-> "map", bag |-> b]
MdOther == [err |-> FALSE, k |-> "other", bag |-> NilBag]

\* GetProperty(..., "...Player.PlaybackStatus"): an error, a string, another type
StErr == [err |-> TRUE, k |-> "other", s |-> ""]
StStr(x) == [err |-> FALSE, k |-> "string", s |-> x]
StOther == [err |-> FALSE, k |-> "other", s |-> ""]

\* GetNameOwner(name): an error or the unique name
OwnerErr == [err |-> TRUE, owner |-> EmptyName]
OwnerIs(u) == [err |-> FALSE, owner |-> u]

\* ------------------------------------------------------------------------
\* The events channel
\* ------------------------------------------------------------------------

\* a mutant of TrySend: a full channel evicts its oldest element
TrySendEvict(q, closed, snap) ==
    IF closed
    THEN [q |-> q, panic |-> TRUE, dropped |-> FALSE]
    ELSE IF Len(q) < QueueCap
         THEN [q |-> Append(q, snap), panic |-> FALSE, dropped |-> FALSE]
         ELSE [q |-> Append(Tail(q), snap), panic |-> FALSE, dropped |-> TRUE]

\* select { case m.events <- mediaMeta: ... default: m.logChannelFullWarning() }
\* A send on a closed channel panics, inside a select as outside it.
TrySend(q, closed, snap) ==
    IF closed
    THEN [q |-> q, panic |-> TRUE, dropped |-> FALSE]
    ELSE IF Len(q) < QueueCap
         THEN [q |-> Append(q, snap), panic |-> FALSE, dropped |-> FALSE]
         ELSE [q |-> q, panic |-> FALSE, dropped |-> TRUE]

\* ------------------------------------------------------------------------
\* The player registry (m.playerNames): a function from the unique names
\* that have an entry to well-known names
\* ------------------------------------------------------------------------

EmptyRegistry == [u \in {} |-> EmptyName]

\* m.playerNames[u] = name
Associate(reg, u, name) ==
    [x \in DOMAIN reg \cup {u} |-> IF x = u THEN name ELSE reg[x]]

\* delete(m.playerNames, u)
Dissociate(reg, u) == [x \in DOMAIN reg \ {u} |-> reg[x]]

\* a mutant of getPlayerName: no entry gives the empty name
getPlayerNameOrEmpty(reg, u) == IF u \in DOMAIN reg THEN reg[u] ELSE EmptyName

\* getPlayerName(uniqueName)
getPlayerName(reg, u) == IF u \in DOMAIN reg THEN reg[u] ELSE u

\* ------------------------------------------------------------------------
\* Signals
\* ------------------------------------------------------------------------

NameOwnerChanged == "org.freedesktop.DBus.NameOwnerChanged"
PropertiesChanged == "org.freedesktop.DBus.Properties.PropertiesChanged"
SomeOtherSignal == "org.freedesktop.DBus.SomeOtherSignal"

PlayerInterface == <<"org", "mpris", "MediaPlayer2", "Player">>
RootInterface == <<"org", "mpris", "MediaPlayer2">>

\* an entry of the changed-properties map: the key is absent, or its value is
\* of the expected type, or of another type
NoMd == [k |-> "absent", bag |-> NilBag]
SigMd(b) == [k |-> "map", bag |-> b]
BadMd == [k |-> "other", bag |-> NilBag]
NoSt == [k |-> "absent", s |-> ""]
SigSt(x) == [k |-> "string", s |-> x]
BadSt == [k |-> "other", s |-> ""]

\* an element of sig.Body: a string, a map[string]dbus.Variant, or other
BStr(n) == [k |-> "string", n |-> n, md |-> NoMd, st |-> NoSt]
BMap(md, st) == [k |-> "map", n |-> EmptyName, md |-> md, st |-> st]
BOther == [k |-> "other", n |-> EmptyName, md |-> NoMd, st |-> NoSt]

Signal(name, sender, body) == [Name |-> name, Sender |-> sender, Body |-> body]

\* body[i].(string), the zero value when the assertion fails
AsString(b) == IF b.k = "string" THEN b.n ELSE EmptyName

\* one property read: GetProperty(dest, "/org/mpris/MediaPlayer2", prop)
Read(dest, prop) == [dest |-> dest, prop |-> prop]

\* ------------------------------------------------------------------------
\* fetchPlayerMetadata(playerName), given what the two reads return
\* ------------------------------------------------------------------------

\* a mutant of FetchPlayerMetadata: a failed read is answered with an empty
\* snapshot instead of an error
FetchPlayerMetadataEmitAlways(playerName, md, st, q, closed) ==
    LET bag == IF md.err \/ md.k # "map" THEN NilBag ELSE md.bag
        tok == IF st.err \/ st.k # "string" THEN "" ELSE st.s
        sent == TrySend(q, closed, parseMetadata(bag, tok))
    IN  [q |-> sent.q, panic |-> sent.panic, err |-> FALSE,
         reads |-> <<Read(playerName, "Metadata"),
                     Read(playerName, "PlaybackStatus")>>,
         attempts |-> 1, dropped |-> sent.dropped]

FetchPlayerMetadata(playerName, md, st, q, closed) ==
    LET none(e, rs) == [q |-> q, panic |-> FALSE, err |-> e, reads |-> rs,
                        attempts |-> 0, dropped |-> FALSE]
        r1 == <<Read(playerName, "Metadata")>>
        r2 == <<Read(playerName, "Metadata"), Read(playerName, "PlaybackStatus")>>
    IN  IF md.err THEN none(TRUE, r1)
        ELSE IF md.k # "map" THEN none(FALSE, r1)
        ELSE IF st.err THEN none(TRUE, r2)
        ELSE IF st.k # "string" THEN none(TRUE, r2)
        ELSE LET sent == TrySend(q, closed, parseMetadata(md.bag, st.s))
             IN  [q |-> sent.q, panic |-> sent.panic, err |-> FALSE,
                  reads |-> r2, attempts |-> 1, dropped |-> sent.dropped]

\* ------------------------------------------------------------------------
\* handleNameOwnerChanged(sig)
\* ------------------------------------------------------------------------

\* a mutant of handleNameOwnerChanged: the disappearance branch deletes the
\* old owner's entry only when it holds the announced name
handleNameOwnerChangedGuardedDelete(sig, reg, q, closed, md, st) ==
    LET same == [reg |-> reg, q |-> q, panic |-> FALSE, reads |-> << >>,
                 fetches |-> 0, fetchErr |-> FALSE, attempts |-> 0,
                 dropped |-> FALSE]
    IN  IF Len(sig.Body) < 3 THEN same
        ELSE IF sig.Body[1].k # "string" \/ ~HasPlayerPrefix(sig.Body[1].n)
        THEN same
        ELSE
        LET name == sig.Body[1].n
            oldOwner == AsString(sig.Body[2])
            newOwner == AsString(sig.Body[3])
        IN  IF newOwner # EmptyName /\ oldOwner = EmptyName
            THEN LET reg1 == Associate(reg, newOwner, name)
                     f == FetchPlayerMetadata(name, md, st, q, closed)
                 IN  [reg |-> reg1, q |-> f.q, panic |-> f.panic,
                      reads |-> f.reads, fetches |-> 1, fetchErr |-> f.err,
                      attempts |-> f.attempts, dropped |-> f.dropped]
            ELSE IF newOwner = EmptyName /\ oldOwner # EmptyName
            THEN IF getPlayerName(reg, oldOwner) = name
                 THEN [same EXCEPT !.reg = Dissociate(reg, oldOwner)]
                 ELSE same
            ELSE IF newOwner # EmptyName /\ oldOwner # EmptyName
            THEN [same EXCEPT !.reg =
                      Associate(Dissociate(reg, oldOwner), newOwner, name)]
            ELSE same

\* a mutant of handleNameOwnerChanged: the appearance branch fetches before it
\* has stored the registry entry, and stores it only when the fetch succeeded
handleNameOwnerChangedFetchFirst(sig, reg, q, closed, md, st) ==
    LET same == [reg |-> reg, q |-> q, panic |-> FALSE, reads |-> << >>,
                 fetches |-> 0, fetchErr |-> FALSE, attempts |-> 0,
                 dropped |-> FALSE]
    IN  IF Len(sig.Body) < 3 THEN same
        ELSE IF sig.Body[1].k # "string" \/ ~HasPlayerPrefix(sig.Body[1].n)
        THEN same
        ELSE
        LET name == sig.Body[1].n
            oldOwner == AsString(sig.Body[2])
            newOwner == AsString(sig.Body[3])
            f == FetchPlayerMetadata(name, md, st, q, closed)
        IN  IF newOwner # EmptyName /\ oldOwner = EmptyName
            THEN [reg |-> IF f.err THEN reg ELSE Associate(reg, newOwner, name),
                  q |-> f.q, panic |-> f.panic, reads |-> f.reads,
                  fetches |-> 1, fetchErr |-> f.err, attempts |-> f.attempts,
                  dropped |-> f.dropped]
            ELSE IF newOwner = EmptyName /\ oldOwner # EmptyName
            THEN [same EXCEPT !.reg = Dissociate(reg, oldOwner)]
            ELSE IF newOwner # EmptyName /\ oldOwner # EmptyName
            THEN [same EXCEPT !.reg =
                      Associate(Dissociate(reg, oldOwner), newOwner, name)]
            ELSE same

\* a mutant of handleNameOwnerChanged: the transfer branch fetches the
\* player's snapshot as the appearance branch does
handleNameOwnerChangedFetchOnTransfer(sig, reg, q, closed, md, st) ==
    LET same == [reg |-> reg, q |-> q, panic |-> FALSE, reads |-> << >>,
                 fetches |-> 0, fetchErr |-> FALSE, attempts |-> 0,
                 dropped |-> FALSE]
    IN  IF Len(sig.Body) < 3 THEN same
        ELSE IF sig.Body[1].k # "string" \/ ~HasPlayerPrefix(sig.Body[1].n)
        THEN same
        ELSE
        LET name == sig.Body[1].n
            oldOwner == AsString(sig.Body[2])
            newOwner == AsString(sig.Body[3])
        IN  IF newOwner # EmptyName /\ oldOwner = EmptyName
            THEN \* new player appeared
                 LET reg1 == Associate(reg, newOwner, name)
                     f == FetchPlayerMetadata(name, md, st, q, closed)
                 IN  [reg |-> reg1, q |-> f.q, panic |-> f.panic,
                      reads |-> f.reads, fetches |-> 1, fetchErr |-> f.err,
                      attempts |-> f.attempts, dropped |-> f.dropped]
            ELSE IF newOwner = EmptyName /\ oldOwner # EmptyName
            THEN \* player disappeared
                 [same EXCEPT !.reg = Dissociate(reg, oldOwner)]
            ELSE IF newOwner # EmptyName /\ oldOwner # EmptyName
            THEN \* transfer: both under one m.mu.Lock()
                 LET reg1 == Associate(Dissociate(reg, oldOwner), newOwner,
                                       name)
                     f == FetchPlayerMetadata(name, md, st, q, closed)
                 IN  [reg |-> reg1, q |-> f.q, panic |-> f.panic,
                      reads |-> f.reads, fetches |-> 1, fetchErr |-> f.err,
                      attempts |-> f.attempts, dropped |-> f.dropped]
            ELSE same

handleNameOwnerChanged(sig, reg, q, closed, md, st) ==
    LET same == [reg |-> reg, q |-> q, panic |-> FALSE, reads |-> << >>,
                 fetches |-> 0, fetchErr |-> FALSE, attempts |-> 0,
                 dropped |-> FALSE]
    IN  IF Len(sig.Body) < 3 THEN same
        ELSE IF sig.Body[1].k # "string" \/ ~HasPlayerPrefix(sig.Body[1].n)
        THEN same
        ELSE
        LET name == sig.Body[1].n
            oldOwner == AsString(sig.Body[2])
            newOwner == AsString(sig.Body[3])
        IN  IF newOwner # EmptyName /\ oldOwner = EmptyName
            THEN \* new player appeared
                 LET reg1 == Associate(reg, newOwner, name)
                     f == FetchPlayerMetadata(name, md, st, q, closed)
                 IN  [reg |-> reg1, q |-> f.q, panic |-> f.panic,
                      reads |-> f.reads, fetches |-> 1, fetchErr |-> f.err,
                      attempts |-> f.attempts, dropped |-> f.dropped]
            ELSE IF newOwner = EmptyName /\ oldOwner # EmptyName
            THEN \* player disappeared
                 [same EXCEPT !.reg = Dissociate(reg, oldOwner)]
            ELSE IF newOwner # EmptyName /\ oldOwner # EmptyName
            THEN \* transfer: both under one m.mu.Lock()
                 [same EXCEPT !.reg =
                      Associate(Dissociate(reg, oldOwner), newOwner, name)]
            ELSE same

\* ------------------------------------------------------------------------
\* handleSignal(sig)
\* ------------------------------------------------------------------------

\* a mutant of handleSignal: a wrong-typed Metadata or PlaybackStatus value is
\* replaced by its zero value instead of dropping the signal
handleSignalLenient(sig, reg, q, closed, md, st) ==
    LET same == [reg |-> reg, q |-> q, panic |-> FALSE, reads |-> << >>,
                 fetches |-> 0, fetchErr |-> FALSE, attempts |-> 0,
                 dropped |-> FALSE]
    IN  IF sig.Name # PropertiesChanged THEN same
        ELSE IF Len(sig.Body) < 2 THEN same
        ELSE IF sig.Body[1].k # "string" \/ sig.Body[1].n # PlayerInterface
        THEN same
        ELSE IF sig.Body[2].k # "map" THEN same
        ELSE
        LET smd == sig.Body[2].md
            sst == sig.Body[2].st
        IN  IF smd.k = "absent" /\ sst.k = "absent" THEN same
            ELSE LET bag == IF smd.k = "map" THEN smd.bag ELSE NilBag
                     tok == IF sst.k = "string" THEN sst.s ELSE ""
                     sent == TrySend(q, closed, parseMetadata(bag, tok))
                 IN  [same EXCEPT !.q = sent.q, !.panic = sent.panic,
                                  !.attempts = 1, !.dropped = sent.dropped]

\* a mutant of handleSignal: the properties are read from the player name
\* the registry resolves the sender to
handleSignalByName(sig, reg, q, closed, md, st) ==
    LET same == [reg |-> reg, q |-> q, panic |-> FALSE, reads |-> << >>,
                 fetches |-> 0, fetchErr |-> FALSE, attempts |-> 0,
                 dropped |-> FALSE]
    IN  IF sig.Name # PropertiesChanged THEN same
        ELSE IF Len(sig.Body) < 2 THEN same
        ELSE IF sig.Body[1].k # "string" \/ sig.Body[1].n # PlayerInterface
        THEN same
        ELSE IF sig.Body[2].k # "map" THEN same
        ELSE
        LET smd == sig.Body[2].md
            sst == sig.Body[2].st
            hasMetadata == smd.k # "absent"
            hasStatus == sst.k # "absent"
        IN  IF ~hasMetadata /\ ~hasStatus THEN same
            ELSE IF hasMetadata /\ smd.k # "map" THEN same
            ELSE IF hasStatus /\ sst.k # "string" THEN same
            ELSE
            LET \* the status: from the signal, or read from the sender
                status == IF hasStatus THEN sst.s
                          ELSE IF ~st.err /\ st.k = "string" THEN st.s ELSE ""
                rs1 == IF hasStatus THEN << >>
                       ELSE <<Read(getPlayerName(reg, sig.Sender), "PlaybackStatus")>>
                \* the metadata: from the signal, or read from the sender
                metadata == IF hasMetadata THEN smd.bag
                            ELSE IF ~md.err /\ md.k = "map" THEN md.bag
                            ELSE NilBag
                rs2 == IF ~hasMetadata /\ hasStatus
                       THEN <<Read(getPlayerName(reg, sig.Sender), "Metadata")>> ELSE << >>
                sent == TrySend(q, closed, parseMetadata(metadata, status))
            IN  [reg |-> reg, q |-> sent.q, panic |-> sent.panic,
                 reads |-> rs1 \o rs2, fetches |-> 0, fetchErr |-> FALSE,
                 attempts |-> 1, dropped |-> sent.dropped]

\* a mutant of handleSignal: a failed or wrong-typed on-demand read drops
\* the signal
handleSignalStrictReads(sig, reg, q, closed, md, st) ==
    LET same == [reg |-> reg, q |-> q, panic |-> FALSE, reads |-> << >>,
                 fetches |-> 0, fetchErr |-> FALSE, attempts |-> 0,
                 dropped |-> FALSE]
    IN  IF sig.Name # PropertiesChanged THEN same
        ELSE IF Len(sig.Body) < 2 THEN same
        ELSE IF sig.Body[1].k # "string" \/ sig.Body[1].n # PlayerInterface
        THEN same
        ELSE IF sig.Body[2].k # "map" THEN same
        ELSE
        LET smd == sig.Body[2].md
            sst == sig.Body[2].st
            hasMetadata == smd.k # "absent"
            hasStatus == sst.k # "absent"
        IN  IF ~hasMetadata /\ ~hasStatus THEN same
            ELSE IF hasMetadata /\ smd.k # "map" THEN same
            ELSE IF hasStatus /\ sst.k # "string" THEN same
            ELSE IF ~hasStatus /\ (st.err \/ st.k # "string") THEN same
            ELSE IF ~hasMetadata /\ (md.err \/ md.k # "map") THEN same
            ELSE
            LET \* the status: from the signal, or read from the sender
                status == IF hasStatus THEN sst.s
                          ELSE IF ~st.err /\ st.k = "string" THEN st.s ELSE ""
                rs1 == IF hasStatus THEN << >>
                       ELSE <<Read(sig.Sender, "PlaybackStatus")>>
                \* the metadata: from the signal, or read from the sender
                metadata == IF hasMetadata THEN smd.bag
                            ELSE IF ~md.err /\ md.k = "map" THEN md.bag
                            ELSE NilBag
                rs2 == IF ~hasMetadata /\ hasStatus
                       THEN <<Read(sig.Sender, "Metadata")>> ELSE << >>
                sent == TrySend(q, closed, parseMetadata(metadata, status))
            IN  [reg |-> reg, q |-> sent.q, panic |-> sent.panic,
                 reads |-> rs1 \o rs2, fetches |-> 0, fetchErr |-> FALSE,
                 attempts |-> 1, dropped |-> sent.dropped]

\* a mutant of handleSignal: a signal whose sender the registry does not
\* resolve is dropped
handleSignalKnownSenders(sig, reg, q, closed, md, st) ==
    LET same == [reg |-> reg, q |-> q, panic |-> FALSE, reads |-> << >>,
                 fetches |-> 0, fetchErr |-> FALSE, attempts |-> 0,
                 dropped |-> FALSE]
    IN  IF sig.Name # PropertiesChanged THEN same
        ELSE IF Len(sig.Body) < 2 THEN same
        ELSE IF sig.Body[1].k # "string" \/ sig.Body[1].n # PlayerInterface
        THEN same
        ELSE IF sig.Body[2].k # "map" THEN same
        ELSE IF getPlayerName(reg, sig.Sender) = sig.Sender THEN same
        ELSE
        LET smd == sig.Body[2].md
            sst == sig.Body[2].st
            hasMetadata == smd.k # "absent"
            hasStatus == sst.k # "absent"
        IN  IF ~hasMetadata /\ ~hasStatus THEN same
            ELSE IF hasMetadata /\ smd.k # "map" THEN same
            ELSE IF hasStatus /\ sst.k # "string" THEN same
            ELSE
            LET \* the status: from the signal, or read from the sender
                status == IF hasStatus THEN sst.s
                          ELSE IF ~st.err /\ st.k = "string" THEN st.s ELSE ""
                rs1 == IF hasStatus THEN << >>
                       ELSE <<Read(sig.Sender, "PlaybackStatus")>>
                \* the metadata: from the signal, or read from the sender
                metadata == IF hasMetadata THEN smd.bag
                            ELSE IF ~md.err /\ md.k = "map" THEN md.bag
                            ELSE NilBag
                rs2 == IF ~hasMetadata /\ hasStatus
                       THEN <<Read(sig.Sender, "Metadata")>> ELSE << >>
                sent == TrySend(q, closed, parseMetadata(metadata, status))
            IN  [reg |-> reg, q |-> sent.q, panic |-> sent.panic,
                 reads |-> rs1 \o rs2, fetches |-> 0, fetchErr |-> FALSE,
                 attempts |-> 1, dropped |-> sent.dropped]

\* lines 361-459: the checks of the signal, the on-demand read, the parse and
\* the non-blocking send
handleSignal(sig, reg, q, closed, md, st) ==
    LET same == [reg |-> reg, q |-> q, panic |-> FALSE, reads |-> << >>,
                 fetches |-> 0, fetchErr |-> FALSE, attempts |-> 0,
                 dropped |-> FALSE]
    IN  IF sig.Name # PropertiesChanged THEN same
        ELSE IF Len(sig.Body) < 2 THEN same
        ELSE IF sig.Body[1].k # "string" \/ sig.Body[1].n # PlayerInterface
        THEN same
        ELSE IF sig.Body[2].k # "map" THEN same
        ELSE
        LET smd == sig.Body[2].md
            sst == sig.Body[2].st
            hasMetadata == smd.k # "absent"
            hasStatus == sst.k # "absent"
        IN  IF ~hasMetadata /\ ~hasStatus THEN same
            ELSE IF hasMetadata /\ smd.k # "map" THEN same
            ELSE IF hasStatus /\ sst.k # "string" THEN same
            ELSE
            LET \* the status: from the signal, or read from the sender
                status == IF hasStatus THEN sst.s
                          ELSE IF ~st.err /\ st.k = "string" THEN st.s ELSE ""
                rs1 == IF hasStatus THEN << >>
                       ELSE <<Read(sig.Sender, "PlaybackStatus")>>
                \* the metadata: from the signal, or read from the sender
                metadata == IF hasMetadata THEN smd.bag
                            ELSE IF ~md.err /\ md.k = "map" THEN md.bag
                            ELSE NilBag
                rs2 == IF ~hasMetadata /\ hasStatus
                       THEN <<Read(sig.Sender, "Metadata")>> ELSE << >>
                sent == TrySend(q, closed, parseMetadata(metadata, status))
            IN  [reg |-> reg, q |-> sent.q, panic |-> sent.panic,
                 reads |-> rs1 \o rs2, fetches |-> 0, fetchErr |-> FALSE,
                 attempts |-> 1, dropped |-> sent.dropped]

\* monitorSignals, the dispatch on sig.Name
dispatch(sig, reg, q, closed, md, st) ==
    IF sig.Name = NameOwnerChanged
    THEN handleNameOwnerChanged(sig, reg, q, closed, md, st)
    ELSE handleSignal(sig, reg, q, closed, md, st)

\* ------------------------------------------------------------------------
\* The monitor's state
\* ------------------------------------------------------------------------

\* goroutines that call getPlayerName
Readers == 1 .. MaxReaders

\* Start and Stop invocations are numbered in the order they are made.  The
\* number of a Start invocation also names the context (monitorCtx), the bus
\* connection and the signal pump that invocation creates.
MaxOf(S) == CHOOSE x \in S : \A y \in S : y <= x

Ids == 1 .. MaxOf({MaxCalls, MaxSeqCalls, MaxStartCalls})

VARIABLES
    running,      \* m.running
    cancel,       \* m.cancel: 0 (nil) or the invocation whose monitorCtx it cancels
    conn,         \* m.conn: 0 (nil) or the invocation that made the connection
    wg,           \* m.wg, the counter
    events,       \* m.events, the buffered elements
    closed,       \* m.events has been closed
    playerNames,  \* m.playerNames
    panicked,     \* "none", or the runtime panic that ended the process
    tokenFired,   \* the ctx given to Start is done
    ctxDone,      \* the invocations whose monitorCtx was cancelled by m.cancel()
    conns,        \* per invocation: "none", "open", "closed"
    pc,           \* per invocation: where its Start or Stop is
    names,        \* per Start: the listed names the scan has still to visit
    target,       \* per Stop: the invocation whose context it cancelled (0: none)
    pump,         \* per Start: "off", "select", "handle", "exited"
    psig,         \* per Start: the signal its pump received last
    calls,        \* invocations made so far
    closes,       \* executions of close(m.events), a panicking one included
    delivered,    \* signals the bus has delivered to a pump
    clock,        \* time.Now(), in milliseconds
    lastDropWarning,  \* m.lastDropWarning
    last          \* what the step just taken did, when it was a scan step or a
                  \* handler (its reads and enqueue attempts); NoStep otherwise

\* the bus
VARIABLES
    rules,      \* per Start: the match rules added on its connection
    busOwner,   \* the bus: per player name its owner ("" when it has none)
    inbox,      \* the signals the connection has put on the pump's channel
    busEvents   \* changes and signals the bus has made so far

busVars == <<rules, busOwner, inbox, busEvents>>

\* a call of parseMetadata on its own
VARIABLES
    parseIn,    \* the arguments: the property bag and the status token
    parseOut    \* the snapshot returned, once the call is made

parseVars == <<parseIn, parseOut>>

\* the application's OnStop hook (main.go, registerHooks)
VARIABLES
    hookStop    \* the call of Monitor.Stop the hook has made, 0 before it

hookVars == <<hookStop>>

\* m.mu and the goroutines that take it around m.playerNames
VARIABLES
    mu,         \* the sync.RWMutex: held by a writer, or by a number of readers
    held,       \* m.playerNames as it was when the handler took the lock
    look        \* per caller of getPlayerName: its position, the identity it
                \* resolves, the map it read and the name it got

lockVars == <<mu, held, look>>

\* what detectExistingPlayers has met
VARIABLES
    scanned     \* per Start, while its scan runs: the listed names visited so
                \* far, each with what GetNameOwner answered

scanVars == <<scanned>>

\* what logChannelFullWarning has written to the log
VARIABLES
    warnings    \* the times of the "Event channel full" warnings, in order

logVars == <<warnings>>

monVars ==
    <<running, cancel, conn, wg, events, closed, playerNames, panicked,
      tokenFired, ctxDone, conns, pc, names, target, pump, psig, calls,
      closes, delivered, clock, lastDropWarning, last>>

\* the engine's state
VARIABLES
    originalWallpaper,  \* e.originalWallpaper
    desktop,            \* the wallpaper the executor has applied
    loop,               \* runLoop: "off", "select", "fetch", "generate",
                        \* "apply", "exited"
    pendingMeta,        \* runLoop's pendingMeta: NoMeta (nil) or a snapshot
    timer,              \* runLoop's timer: armed or not, and its deadline
    stops,              \* calls of Engine.Stop made so far
    restoreAttempts,    \* SetWallpaper(e.originalWallpaper) calls made by Stop
    restored,           \* those of them that succeeded
    stopResult,         \* what the last Engine.Stop returned: "none" before
                        \* any call, "nil" or "error"
    emitted,            \* snapshots the monitor has put on Events()
    arrivals,           \* the snapshots runLoop received, each with its time
                        \* and whether Events() was closed by then
    runs                \* the processMetadata calls runLoop made, each with its
                        \* snapshot, its time, the number of arrivals before
                        \* it, and whether ctx was done when it started

engVars ==
    <<originalWallpaper, desktop, loop, pendingMeta, timer, stops,
      restoreAttempts, restored, stopResult, emitted, arrivals, runs>>

NoSignal == Signal("", EmptyName, << >>)

\* nothing handled yet
NoStep ==
    [op |-> "none", reads |-> << >>, fetches |-> 0, fetchErr |-> FALSE,
     attempts |-> 0, dropped |-> FALSE, warned |-> FALSE]

\* const warningInterval = 5 * time.Second
WarningInterval == 5000

\* the zero time.Time: further than any interval before the process started
ZeroTime == 0 - WarningInterval

\* logChannelFullWarning: the condition under which it logs
Warns(now, lastWarning) == now - lastWarning >= WarningInterval

\* a mutant of logChannelFullWarning: every drop restarts the interval
logChannelFullWarningSliding(now, lastWarning) == now

\* logChannelFullWarning: m.lastDropWarning afterwards
logChannelFullWarning(now, lastWarning) ==
    IF Warns(now, lastWarning) THEN now ELSE lastWarning

\* logChannelFullWarning, line 549: the log afterwards
Logged(log, now, lastWarning) ==
    IF Warns(now, lastWarning) THEN Append(log, now) ELSE log

Step(op, r, warned) ==
    [op |-> op, reads |-> r.reads, fetches |-> r.fetches,
     fetchErr |-> r.fetchErr, attempts |-> r.attempts, dropped |-> r.dropped,
     warned |-> warned]

\* NewMprisMonitor
MonitorInit ==
    /\ running = FALSE
    /\ cancel = 0
    /\ conn = 0
    /\ wg = 0
    /\ events = << >>
    /\ closed = FALSE
    /\ playerNames = EmptyRegistry
    /\ panicked = "none"
    /\ tokenFired = FALSE
    /\ ctxDone = {}
    /\ conns = [i \in Ids |-> "none"]
    /\ pc = [i \in Ids |-> "none"]
    /\ names = [i \in Ids |-> << >>]
    /\ target = [i \in Ids |-> 0]
    /\ pump = [i \in Ids |-> "off"]
    /\ psig = [i \in Ids |-> NoSignal]
    /\ calls = 0
    /\ closes = 0
    /\ delivered = 0
    /\ clock = 0
    /\ lastDropWarning = ZeroTime
    /\ last = NoStep

\* a panic ends the process: nothing runs after it
Alive == panicked = "none"

\* <-monitorCtx.Done() can proceed: context.WithCancel(ctx) is done when its
\* parent is, or when its cancel function was called
Done(i) == tokenFired \/ i \in ctxDone

\* a call on a closed connection fails
Up(c) == c # 0 /\ conns[c] = "open"

\* ------------------------------------------------------------------------
\* Start(ctx)
\* ------------------------------------------------------------------------

\* a mutant of StartEnter: the running flag is not consulted
StartEnterUnguarded(max) ==
    /\ Alive
    /\ calls < max
    /\ calls' = calls + 1
    /\ running' = TRUE
    /\ cancel' = calls + 1
    /\ pc' = [pc EXCEPT ![calls + 1] = "connect"]
    /\ UNCHANGED <<conn, wg, events, closed, playerNames, panicked,
                   tokenFired, ctxDone, conns, names, target, pump, psig,
                   closes, delivered, clock, lastDropWarning>>
    /\ UNCHANGED <<engVars, busVars, parseVars, hookVars, lockVars, scanVars, logVars>>
    /\ last' = NoStep

\* lines 69-78, under m.mu
StartEnter(max) ==
    /\ Alive
    /\ calls < max
    /\ calls' = calls + 1
    /\ IF running
       THEN /\ pc' = [pc EXCEPT ![calls + 1] = "returned"]
            /\ UNCHANGED <<running, cancel>>
       ELSE /\ running' = TRUE
            /\ cancel' = calls + 1
            /\ pc' = [pc EXCEPT ![calls + 1] = "connect"]
    /\ UNCHANGED <<conn, wg, events, closed, playerNames, panicked,
                   tokenFired, ctxDone, conns, names, target, pump, psig,
                   closes, delivered, clock, lastDropWarning>>
    /\ UNCHANGED <<engVars, busVars, parseVars, hookVars, lockVars, scanVars, logVars>>
    /\ last' = NoStep

\* lines 83-92: NewStdDBusClient() succeeds or fails
StartConnect(i, ok) ==
    /\ Alive
    /\ pc[i] = "connect"
    /\ IF ok
       THEN /\ conns' = [conns EXCEPT ![i] = "open"]
            /\ pc' = [pc EXCEPT ![i] = "check"]
            /\ UNCHANGED <<running, cancel>>
       ELSE /\ running' = FALSE
            /\ cancel' = 0
            /\ pc' = [pc EXCEPT ![i] = "failed"]
            /\ UNCHANGED conns
    /\ UNCHANGED <<conn, wg, events, closed, playerNames, panicked,
                   tokenFired, ctxDone, names, target, pump, psig, calls,
                   closes, delivered, clock, lastDropWarning>>
    /\ UNCHANGED <<engVars, busVars, parseVars, hookVars, lockVars, scanVars, logVars>>
    /\ last' = NoStep

\* a mutant of StartCheck: the context is not looked at
StartCheckSkipped(i) ==
    /\ Alive
    /\ pc[i] = "check"
    /\ pc' = [pc EXCEPT ![i] = "setconn"]
    /\ UNCHANGED <<running, cancel, conn, wg, events, closed, playerNames,
                   panicked, tokenFired, ctxDone, conns, names, target, pump,
                   psig, calls, closes, delivered, clock, lastDropWarning>>
    /\ UNCHANGED <<engVars, busVars, parseVars, hookVars, lockVars, scanVars, logVars>>
    /\ last' = NoStep

\* lines 95-103: stopped while connecting
StartCheck(i) ==
    /\ Alive
    /\ pc[i] = "check"
    /\ IF Done(i)
       THEN /\ conns' = [conns EXCEPT ![i] = "closed"]
            /\ pc' = [pc EXCEPT ![i] = "returned"]
       ELSE /\ pc' = [pc EXCEPT ![i] = "setconn"]
            /\ UNCHANGED conns
    /\ UNCHANGED <<running, cancel, conn, wg, events, closed, playerNames,
                   panicked, tokenFired, ctxDone, names, target, pump, psig,
                   calls, closes,
                   delivered, clock, lastDropWarning>>
    /\ UNCHANGED <<engVars, busVars, parseVars, hookVars, lockVars, scanVars, logVars>>
    /\ last' = NoStep

\* lines 106-108
StartSetConn(i) ==
    /\ Alive
    /\ pc[i] = "setconn"
    /\ conn' = i
    /\ pc' = [pc EXCEPT ![i] = "wgadd"]
    /\ UNCHANGED <<running, cancel, wg, events, closed, playerNames,
                   panicked, tokenFired, ctxDone, conns, names, target, pump,
                   psig, calls, closes,
                   delivered, clock, lastDropWarning>>
    /\ UNCHANGED <<engVars, busVars, parseVars, hookVars, lockVars, scanVars, logVars>>
    /\ last' = NoStep

\* line 112: m.wg.Add(1) for the initial scan
StartScanAdd(i) ==
    /\ Alive
    /\ pc[i] = "wgadd"
    /\ wg' = wg + 1
    /\ pc' = [pc EXCEPT ![i] = "list"]
    /\ UNCHANGED <<running, cancel, conn, events, closed, playerNames,
                   panicked, tokenFired, ctxDone, conns, names, target, pump,
                   psig, calls, closes,
                   delivered, clock, lastDropWarning>>
    /\ UNCHANGED <<engVars, busVars, parseVars, hookVars, lockVars, scanVars, logVars>>
    /\ last' = NoStep

\* detectExistingPlayers, lines 199-202: m.conn.ListNames() fails, or returns
\* listing
ScanList(i, ok, listing) ==
    /\ Alive
    /\ pc[i] = "list"
    /\ ok => Up(conn)
    /\ IF ok
       THEN /\ names' = [names EXCEPT ![i] = listing]
            /\ pc' = [pc EXCEPT ![i] = "scan"]
       ELSE /\ pc' = [pc EXCEPT ![i] = "scanerr"]
            /\ UNCHANGED names
    /\ UNCHANGED <<running, cancel, conn, wg, events, closed, playerNames,
                   panicked, tokenFired, ctxDone, conns, target, pump, psig,
                   calls, closes,
                   delivered, clock, lastDropWarning>>
    /\ UNCHANGED <<engVars, busVars, parseVars, hookVars, lockVars, logVars>>
    /\ last' = NoStep
    /\ scanned' = [scanned EXCEPT ![i] = << >>]

\* one iteration of the scan, had it kept the entry an owner already has
ScanStepKeepFirst(i, ow, md, st) ==
    /\ Alive
    /\ pc[i] = "scan"
    /\ names[i] # << >>
    /\ Up(conn) \/ (ow.err /\ md.err /\ st.err)
    /\ LET name == Head(names[i])
           reg1 == IF ow.err \/ ow.owner \in DOMAIN playerNames
                   THEN playerNames
                   ELSE Associate(playerNames, ow.owner, name)
           f == FetchPlayerMetadata(name, md, st, events, closed)
           r == [reads |-> f.reads, fetches |-> 1, fetchErr |-> f.err,
                 attempts |-> f.attempts, dropped |-> f.dropped]
       IN  IF HasPlayerPrefix(name)
           THEN /\ playerNames' = reg1
                /\ events' = f.q
                /\ panicked' = IF f.panic THEN "send on closed channel"
                               ELSE panicked
                /\ lastDropWarning' =
                      IF f.dropped
                      THEN logChannelFullWarning(clock, lastDropWarning)
                      ELSE lastDropWarning
                /\ warnings' =
                      IF f.dropped
                      THEN Logged(warnings, clock, lastDropWarning)
                      ELSE warnings
                /\ last' = Step("scan", r,
                                f.dropped /\ Warns(clock, lastDropWarning))
           ELSE /\ last' = NoStep
                /\ UNCHANGED <<playerNames, events, panicked,
                               lastDropWarning, warnings>>
    /\ names' = [names EXCEPT ![i] = Tail(names[i])]
    /\ UNCHANGED <<running, cancel, conn, wg, closed, tokenFired, ctxDone,
                   conns, pc, target, pump, psig, calls, closes, delivered,
                   clock>>
    /\ UNCHANGED <<engVars, busVars, parseVars, hookVars, lockVars>>
    /\ scanned' =
          [scanned EXCEPT ![i] =
              Append(@, [name |-> Head(names[i]),
                         owner |-> IF HasPlayerPrefix(Head(names[i]))
                                   THEN ow ELSE OwnerErr])]

\* one iteration of the scan, had a failed owner lookup ended the scan
ScanStepAbortOnError(i, ow, md, st) ==
    /\ Alive
    /\ pc[i] = "scan"
    /\ names[i] # << >>
    /\ Up(conn) \/ (ow.err /\ md.err /\ st.err)
    /\ LET name == Head(names[i])
           reg1 == IF ow.err THEN playerNames
                   ELSE Associate(playerNames, ow.owner, name)
           f == FetchPlayerMetadata(name, md, st, events, closed)
           r == [reads |-> f.reads, fetches |-> 1, fetchErr |-> f.err,
                 attempts |-> f.attempts, dropped |-> f.dropped]
       IN  IF HasPlayerPrefix(name)
           THEN /\ playerNames' = reg1
                /\ events' = f.q
                /\ panicked' = IF f.panic THEN "send on closed channel"
                               ELSE panicked
                /\ lastDropWarning' =
                      IF f.dropped
                      THEN logChannelFullWarning(clock, lastDropWarning)
                      ELSE lastDropWarning
                /\ warnings' =
                      IF f.dropped
                      THEN Logged(warnings, clock, lastDropWarning)
                      ELSE warnings
                /\ last' = Step("scan", r,
                                f.dropped /\ Warns(clock, lastDropWarning))
           ELSE /\ last' = NoStep
                /\ UNCHANGED <<playerNames, events, panicked,
                               lastDropWarning, warnings>>
    /\ names' = [names EXCEPT ![i] =
                     IF HasPlayerPrefix(Head(names[i])) /\ ow.err
                     THEN << >> ELSE Tail(names[i])]
    /\ UNCHANGED <<running, cancel, conn, wg, closed, tokenFired, ctxDone,
                   conns, pc, target, pump, psig, calls, closes, delivered,
                   clock>>
    /\ UNCHANGED <<engVars, busVars, parseVars, hookVars, lockVars>>
    /\ scanned' =
          [scanned EXCEPT ![i] =
              Append(@, [name |-> Head(names[i]),
                         owner |-> IF HasPlayerPrefix(Head(names[i]))
                                   THEN ow ELSE OwnerErr])]

\* detectExistingPlayers, lines 206-229: one iteration of the loop, for the
\* next listed name; ow, md, st are what the bus answers
ScanStep(i, ow, md, st) ==
    /\ Alive
    /\ pc[i] = "scan"
    /\ names[i] # << >>
    /\ Up(conn) \/ (ow.err /\ md.err /\ st.err)
    /\ LET name == Head(names[i])
           reg1 == IF ow.err THEN playerNames
                   ELSE Associate(playerNames, ow.owner, name)
           f == FetchPlayerMetadata(name, md, st, events, closed)
           r == [reads |-> f.reads, fetches |-> 1, fetchErr |-> f.err,
                 attempts |-> f.attempts, dropped |-> f.dropped]
       IN  IF HasPlayerPrefix(name)
           THEN /\ playerNames' = reg1
                /\ events' = f.q
                /\ panicked' = IF f.panic THEN "send on closed channel"
                               ELSE panicked
                /\ lastDropWarning' =
                      IF f.dropped
                      THEN logChannelFullWarning(clock, lastDropWarning)
                      ELSE lastDropWarning
                /\ warnings' =
                      IF f.dropped
                      THEN Logged(warnings, clock, lastDropWarning)
                      ELSE warnings
                /\ last' = Step("scan", r,
                                f.dropped /\ Warns(clock, lastDropWarning))
           ELSE /\ last' = NoStep
                /\ UNCHANGED <<playerNames, events, panicked,
                               lastDropWarning, warnings>>
    /\ names' = [names EXCEPT ![i] = Tail(names[i])]
    /\ UNCHANGED <<running, cancel, conn, wg, closed, tokenFired, ctxDone,
                   conns, pc, target, pump, psig, calls, closes, delivered,
                   clock>>
    /\ UNCHANGED <<engVars, busVars, parseVars, hookVars, lockVars>>
    /\ scanned' =
          [scanned EXCEPT ![i] =
              Append(@, [name |-> Head(names[i]),
                         owner |-> IF HasPlayerPrefix(Head(names[i]))
                                   THEN ow ELSE OwnerErr])]

\* lines 114-118: the scan returned (all names visited, or the listing
\* failed); the deferred m.wg.Done() runs
ScanDone(i) ==
    /\ Alive
    /\ \/ pc[i] = "scan" /\ names[i] = << >>
       \/ pc[i] = "scanerr"
    /\ wg' = wg - 1
    /\ pc' = [pc EXCEPT ![i] = "match1"]
    /\ UNCHANGED <<running, cancel, conn, events, closed, playerNames,
                   panicked, tokenFired, ctxDone, conns, names, target, pump,
                   psig, calls, closes,
                   delivered, clock, lastDropWarning>>
    /\ UNCHANGED <<engVars, busVars, parseVars, hookVars, lockVars, logVars>>
    /\ last' = NoStep
    /\ scanned' = [scanned EXCEPT ![i] = << >>]

\* lines 122-129: the PropertiesChanged match rule, on the local conn
StartMatch1(i, ok) ==
    /\ Alive
    /\ pc[i] = "match1"
    /\ ok => Up(i)
    /\ pc' = [pc EXCEPT ![i] = IF ok THEN "match2" ELSE "failed"]
    /\ rules' = IF ok THEN [rules EXCEPT ![i] = @ \cup {"properties"}] ELSE rules
    /\ UNCHANGED <<running, cancel, conn, wg, events, closed, playerNames,
                   panicked, tokenFired, ctxDone, conns, names, target, pump,
                   psig, calls, closes,
                   delivered, clock, lastDropWarning>>
    /\ UNCHANGED <<engVars, busOwner, inbox, busEvents, parseVars, hookVars, lockVars, scanVars, logVars>>
    /\ last' = NoStep

\* a mutant of StartMatch2: a failure of the second rule ends Start as well
StartMatch2Fatal(i, ok) ==
    /\ Alive
    /\ pc[i] = "match2"
    /\ ok => Up(i)
    /\ pc' = [pc EXCEPT ![i] = IF ok THEN "launch" ELSE "failed"]
    /\ rules' = IF ok THEN [rules EXCEPT ![i] = @ \cup {"owner"}] ELSE rules
    /\ UNCHANGED <<running, cancel, conn, wg, events, closed, playerNames,
                   panicked, tokenFired, ctxDone, conns, names, target, pump,
                   psig, calls, closes,
                   delivered, clock, lastDropWarning>>
    /\ UNCHANGED <<engVars, busOwner, inbox, busEvents, parseVars, hookVars, lockVars, scanVars, logVars>>
    /\ last' = NoStep

\* lines 134-142: the NameOwnerChanged match rule; a failure is only logged
StartMatch2(i, ok) ==
    /\ Alive
    /\ pc[i] = "match2"
    /\ ok => Up(i)
    /\ pc' = [pc EXCEPT ![i] = "launch"]
    /\ rules' = IF ok THEN [rules EXCEPT ![i] = @ \cup {"owner"}] ELSE rules
    /\ UNCHANGED <<running, cancel, conn, wg, events, closed, playerNames,
                   panicked, tokenFired, ctxDone, conns, names, target, pump,
                   psig, calls, closes,
                   delivered, clock, lastDropWarning>>
    /\ UNCHANGED <<engVars, busOwner, inbox, busEvents, parseVars, hookVars, lockVars, scanVars, logVars>>
    /\ last' = NoStep

\* lines 145-146: m.wg.Add(1); go m.monitorSignals(monitorCtx)
StartLaunch(i) ==
    /\ Alive
    /\ pc[i] = "launch"
    /\ wg' = wg + 1
    /\ pump' = [pump EXCEPT ![i] = "select"]
    /\ pc' = [pc EXCEPT ![i] = "block"]
    /\ UNCHANGED <<running, cancel, conn, events, closed, playerNames,
                   panicked, tokenFired, ctxDone, conns, names, target, psig,
                   calls, closes,
                   delivered, clock, lastDropWarning>>
    /\ UNCHANGED <<engVars, busVars, parseVars, hookVars, lockVars, scanVars, logVars>>
    /\ last' = NoStep

\* lines 149-152: <-monitorCtx.Done(), then return
StartBlock(i) ==
    /\ Alive
    /\ pc[i] = "block"
    /\ Done(i)
    /\ pc' = [pc EXCEPT ![i] = "returned"]
    /\ UNCHANGED <<running, cancel, conn, wg, events, closed, playerNames,
                   panicked, tokenFired, ctxDone, conns, names, target, pump,
                   psig, calls, closes,
                   delivered, clock, lastDropWarning>>
    /\ UNCHANGED <<engVars, busVars, parseVars, hookVars, lockVars, scanVars, logVars>>
    /\ last' = NoStep

\* ------------------------------------------------------------------------
\* Stop(ctx)
\* ------------------------------------------------------------------------

\* lines 157-169, under m.mu
StopCall(max) ==
    /\ Alive
    /\ calls < max
    /\ calls' = calls + 1
    /\ IF ~running
       THEN /\ pc' = [pc EXCEPT ![calls + 1] = "returned"]
            /\ UNCHANGED <<running, ctxDone, target>>
       ELSE /\ ctxDone' = IF cancel # 0 THEN ctxDone \cup {cancel} ELSE ctxDone
            /\ running' = FALSE
            /\ target' = [target EXCEPT ![calls + 1] = cancel]
            /\ pc' = [pc EXCEPT ![calls + 1] = "wait"]
    /\ UNCHANGED <<cancel, conn, wg, events, closed, playerNames, panicked,
                   tokenFired, conns, names, pump, psig, closes,
                   delivered, clock, lastDropWarning>>
    /\ UNCHANGED <<engVars, busVars, parseVars, lockVars, scanVars, logVars>>
    /\ last' = NoStep

\* a call of Stop made by anyone but the application's hook
StopEnter(max) == StopCall(max) /\ UNCHANGED hookVars

\* line 174: m.wg.Wait() returns when the counter is zero
StopWait(i) ==
    /\ Alive
    /\ pc[i] = "wait"
    /\ wg = 0
    /\ pc' = [pc EXCEPT ![i] = "close"]
    /\ UNCHANGED <<running, cancel, conn, wg, events, closed, playerNames,
                   panicked, tokenFired, ctxDone, conns, names, target, pump,
                   psig, calls, closes,
                   delivered, clock, lastDropWarning>>
    /\ UNCHANGED <<engVars, busVars, parseVars, hookVars, lockVars, scanVars, logVars>>
    /\ last' = NoStep

\* line 177: close(m.events); closing a closed channel panics
StopClose(i) ==
    /\ Alive
    /\ pc[i] = "close"
    /\ closes' = closes + 1
    /\ IF closed
       THEN /\ panicked' = "close of closed channel"
            /\ UNCHANGED <<closed, pc>>
       ELSE /\ closed' = TRUE
            /\ pc' = [pc EXCEPT ![i] = "closeconn"]
            /\ UNCHANGED panicked
    /\ UNCHANGED <<running, cancel, conn, wg, events, playerNames,
                   tokenFired, ctxDone, conns, names, target, pump, psig,
                   calls,
                   delivered, clock, lastDropWarning>>
    /\ UNCHANGED <<engVars, busVars, parseVars, hookVars, lockVars, scanVars, logVars>>
    /\ last' = NoStep

\* lines 180-189, under m.mu: m.conn.Close() when m.conn is set (an error of
\* Close, as on a connection already closed, is only logged)
StopCloseConn(i) ==
    /\ Alive
    /\ pc[i] = "closeconn"
    /\ conns' = IF conn # 0 THEN [conns EXCEPT ![conn] = "closed"] ELSE conns
    /\ pc' = [pc EXCEPT ![i] = "stopped"]
    /\ UNCHANGED <<running, cancel, conn, wg, events, closed, playerNames,
                   panicked, tokenFired, ctxDone, names, target, pump, psig,
                   calls, closes,
                   delivered, clock, lastDropWarning>>
    /\ UNCHANGED <<engVars, busVars, parseVars, hookVars, lockVars, scanVars, logVars>>
    /\ last' = NoStep

\* ------------------------------------------------------------------------
\* monitorSignals(ctx), the signal pump
\* ------------------------------------------------------------------------

\* lines 288-291: the select takes <-ctx.Done(); the deferred m.wg.Done() runs
PumpExit(i) ==
    /\ Alive
    /\ pump[i] = "select"
    /\ Done(i)
    /\ pump' = [pump EXCEPT ![i] = "exited"]
    /\ wg' = wg - 1
    /\ UNCHANGED <<running, cancel, conn, events, closed, playerNames,
                   panicked, tokenFired, ctxDone, conns, pc, names, target,
                   psig, calls, closes,
                   delivered, clock, lastDropWarning>>
    /\ UNCHANGED <<engVars, busVars, parseVars, hookVars, lockVars, scanVars, logVars>>
    /\ last' = NoStep

\* lines 292-295: the select takes sig := <-signals.  When both cases can
\* proceed the select chooses either.  (A nil signal, read from the signals
\* channel once the connection has closed it, only loops.)
Receive(i, sig) ==
    /\ Alive
    /\ pump[i] = "select"
    /\ pump' = [pump EXCEPT ![i] = "handle"]
    /\ psig' = [psig EXCEPT ![i] = sig]
    /\ UNCHANGED <<running, cancel, conn, wg, events, closed, playerNames,
                   panicked, tokenFired, ctxDone, conns, pc, names, target,
                   calls, closes, clock, lastDropWarning>>
    /\ UNCHANGED <<engVars, parseVars, hookVars, lockVars, scanVars, logVars>>
    /\ last' = NoStep

PumpReceive(i, sig) == Receive(i, sig) /\ UNCHANGED <<delivered, busVars>>

\* the same, on a bus that delivers max signals
PumpReceiveBounded(i, sig, max) ==
    /\ delivered < max
    /\ Receive(i, sig)
    /\ delivered' = delivered + 1
    /\ UNCHANGED busVars

\* lines 297-301: the handler of the received signal, with what the bus
\* answers to its property reads
PumpHandle(i, md, st) ==
    /\ Alive
    /\ pump[i] = "handle"
    /\ Up(conn) \/ (md.err /\ st.err)
    /\ LET r == dispatch(psig[i], playerNames, events, closed, md, st)
       IN  /\ playerNames' = r.reg
           /\ events' = r.q
           /\ panicked' = IF r.panic THEN "send on closed channel" ELSE panicked
           /\ lastDropWarning' =
                 IF r.dropped
                 THEN logChannelFullWarning(clock, lastDropWarning)
                 ELSE lastDropWarning
           /\ warnings' =
                 IF r.dropped
                 THEN Logged(warnings, clock, lastDropWarning)
                 ELSE warnings
           /\ last' = Step(IF psig[i].Name = NameOwnerChanged THEN "noc"
                           ELSE "sig",
                           r, r.dropped /\ Warns(clock, lastDropWarning))
    /\ pump' = [pump EXCEPT ![i] = "select"]
    /\ UNCHANGED <<running, cancel, conn, wg, closed, tokenFired, ctxDone,
                   conns, pc, names, target, psig, calls, closes, delivered,
                   clock>>
    /\ UNCHANGED <<engVars, busVars, parseVars, hookVars, lockVars, scanVars>>

\* ------------------------------------------------------------------------
\* The environment
\* ------------------------------------------------------------------------

\* the reader of Events() takes the oldest element
Consume ==
    /\ Alive
    /\ events # << >>
    /\ events' = Tail(events)
    /\ UNCHANGED <<running, cancel, conn, wg, closed, playerNames, panicked,
                   tokenFired, ctxDone, conns, pc, names, target, pump, psig,
                   calls, closes,
                   delivered, clock, lastDropWarning>>
    /\ UNCHANGED <<engVars, busVars, parseVars, hookVars, lockVars, scanVars, logVars>>
    /\ last' = NoStep

\* time passes for the monitor: what time.Now() of line 548 returns grows
TimePasses ==
    /\ Alive
    /\ clock < MaxWarnClock
    /\ clock' = clock + WarnTickMs
    /\ UNCHANGED <<running, cancel, conn, wg, events, closed, playerNames,
                   panicked, tokenFired, ctxDone, conns, pc, names, target,
                   pump, psig, calls, closes, delivered, lastDropWarning>>
    /\ UNCHANGED <<engVars, busVars, parseVars, hookVars, lockVars, scanVars, logVars>>
    /\ last' = NoStep

\* the ctx given to Start is cancelled
FireToken ==
    /\ Alive
    /\ ~tokenFired
    /\ tokenFired' = TRUE
    /\ UNCHANGED <<running, cancel, conn, wg, events, closed, playerNames,
                   panicked, ctxDone, conns, pc, names, target, pump, psig,
                   calls, closes,
                   delivered, clock, lastDropWarning>>
    /\ UNCHANGED <<engVars, busVars, parseVars, hookVars, lockVars, scanVars, logVars>>
    /\ last' = NoStep

\* ------------------------------------------------------------------------
\* The engine's state
\* ------------------------------------------------------------------------

\* the monitor's variables an engine step leaves alone
monRest ==
    <<running, cancel, conn, wg, playerNames, panicked, ctxDone, conns, pc,
      names, target, pump, psig, calls, closes, delivered, lastDropWarning,
      last, rules, busOwner, inbox, busEvents, parseIn, parseOut,
      hookStop, mu, held, look, scanned, warnings>>

\* debounceDuration := 500 * time.Millisecond
DebounceDuration == 500

\* var pendingMeta *domain.MediaMetadata: nil
NoMeta == [nil |-> TRUE, meta |-> parseMetadata(NilBag, "")]
SomeMeta(m) == [nil |-> FALSE, meta |-> m]

\* timer.Stop(): the timer will not fire
StoppedTimer == [armed |-> FALSE, deadline |-> 0]

\* timer.Reset(d) at time now: the timer fires d later, and a value of an
\* earlier expiry is no longer in timer.C
ResetTimer(now, d) == [armed |-> TRUE, deadline |-> now + d]

\* <-timer.C can proceed
TimerReady == timer.armed /\ clock >= timer.deadline

\* the wallpaper of the desktop before the daemon ran, and the path
\* processor.Generate writes its image to
OriginalPath == "/home/user/Pictures/original.png"
GeneratedPath == "/tmp/synest/wallpaper.png"

\* NewEngine, and the desktop it is started on
EngineInit ==
    /\ originalWallpaper = ""
    /\ desktop = OriginalPath
    /\ loop = "off"
    /\ pendingMeta = NoMeta
    /\ timer = StoppedTimer
    /\ stops = 0
    /\ restoreAttempts = 0
    /\ restored = 0
    /\ stopResult = "none"
    /\ emitted = 0
    /\ arrivals = << >>
    /\ runs = << >>

\* ------------------------------------------------------------------------
\* Engine.Start(ctx)
\* ------------------------------------------------------------------------

\* lines 44-59: GetCurrentWallpaper succeeds or fails; go e.runLoop(ctx).
\* runLoop, lines 64-72: the timer is created and stopped, pendingMeta is nil.
EngineStart(ok) ==
    /\ loop = "off"
    /\ originalWallpaper' = IF ok THEN desktop ELSE originalWallpaper
    /\ loop' = "select"
    /\ timer' = StoppedTimer
    /\ pendingMeta' = NoMeta
    /\ UNCHANGED <<desktop, stops, restoreAttempts, restored, emitted,
                   arrivals, runs>>
    /\ UNCHANGED <<monRest, events, closed, tokenFired, clock>>
    /\ UNCHANGED stopResult

\* ------------------------------------------------------------------------
\* runLoop(ctx).  When several cases of the select can proceed, it takes any
\* of them.
\* ------------------------------------------------------------------------

\* lines 76-78: case <-ctx.Done()
LoopCancel ==
    /\ loop = "select"
    /\ tokenFired
    /\ loop' = "exited"
    /\ UNCHANGED <<originalWallpaper, desktop, pendingMeta, timer, stops,
                   restoreAttempts, restored, emitted, arrivals, runs>>
    /\ UNCHANGED <<monRest, events, closed, tokenFired, clock>>
    /\ UNCHANGED stopResult

\* a mutant of LoopClosed: a closed channel reports the closure at once,
\* whatever it still holds
LoopClosedEarly ==
    /\ loop = "select"
    /\ closed
    /\ loop' = "exited"
    /\ UNCHANGED <<originalWallpaper, desktop, pendingMeta, timer, stops,
                   restoreAttempts, restored, emitted, arrivals, runs>>
    /\ UNCHANGED <<monRest, events, closed, tokenFired, clock>>
    /\ UNCHANGED stopResult

\* lines 80-84: case meta, ok := <-events, on the closed and drained channel
LoopClosed ==
    /\ loop = "select"
    /\ events = << >>
    /\ closed
    /\ loop' = "exited"
    /\ UNCHANGED <<originalWallpaper, desktop, pendingMeta, timer, stops,
                   restoreAttempts, restored, emitted, arrivals, runs>>
    /\ UNCHANGED <<monRest, events, closed, tokenFired, clock>>
    /\ UNCHANGED stopResult

\* a mutant of LoopReceive: the timer is not restarted on an arrival
LoopReceiveKeepTimer ==
    /\ loop = "select"
    /\ events # << >>
    /\ pendingMeta' = SomeMeta(Head(events))
    /\ timer' = IF timer.armed THEN timer
                ELSE ResetTimer(clock, DebounceDuration)
    /\ events' = Tail(events)
    /\ arrivals' = Append(arrivals, [meta |-> Head(events), at |-> clock,
                                     closed |-> closed])
    /\ UNCHANGED <<originalWallpaper, desktop, loop, stops, restoreAttempts,
                   restored, emitted, runs>>
    /\ UNCHANGED <<monRest, closed, tokenFired, clock>>
    /\ UNCHANGED stopResult

\* lines 80-91: case meta, ok := <-events, with an element
LoopReceive ==
    /\ loop = "select"
    /\ events # << >>
    /\ pendingMeta' = SomeMeta(Head(events))
    /\ timer' = ResetTimer(clock, DebounceDuration)
    /\ events' = Tail(events)
    /\ arrivals' = Append(arrivals, [meta |-> Head(events), at |-> clock,
                                     closed |-> closed])
    /\ UNCHANGED <<originalWallpaper, desktop, loop, stops, restoreAttempts,
                   restored, emitted, runs>>
    /\ UNCHANGED <<monRest, closed, tokenFired, clock>>
    /\ UNCHANGED stopResult

\* a mutant of Skips: a snapshot without artwork is processed
SkipsByStatusOnly(m) == m.Status # StatusPlaying

\* processMetadata, lines 106-118: the run ends before it fetches
Skips(m) == m.Status # StatusPlaying \/ m.ArtUrl = ""

\* lines 93-98: case <-timer.C; with a pending snapshot processMetadata is
\* called, and returns at once when it skips
LoopTimer ==
    /\ loop = "select"
    /\ TimerReady
    /\ timer' = StoppedTimer
    /\ IF pendingMeta.nil
       THEN UNCHANGED <<loop, pendingMeta, runs>>
       ELSE /\ runs' = Append(runs, [meta |-> pendingMeta.meta, at |-> clock,
                                     n |-> Len(arrivals),
                                     cancelled |-> tokenFired,
                                     stages |-> << >>])
            /\ IF Skips(pendingMeta.meta)
               THEN /\ pendingMeta' = NoMeta
                    /\ UNCHANGED loop
               ELSE /\ loop' = "fetch"
                    /\ UNCHANGED pendingMeta
    /\ UNCHANGED <<originalWallpaper, desktop, stops, restoreAttempts,
                   restored, emitted, arrivals>>
    /\ UNCHANGED <<monRest, events, closed, tokenFired, clock>>
    /\ UNCHANGED stopResult

\* ------------------------------------------------------------------------
\* processMetadata(ctx, meta), the stages
\* ------------------------------------------------------------------------

\* the run in progress has invoked a stage, which succeeded or failed
Invoked(stage, ok) ==
    [runs EXCEPT ![Len(runs)].stages = Append(@, [stage |-> stage, ok |-> ok])]

\* lines 126-130: e.fetcher.Fetch(ctx, meta.ArtUrl); HTTPFetcher.Fetch fails
\* on a ctx that is done
PipeFetch(ok) ==
    /\ loop = "fetch"
    /\ runs' = Invoked("fetch", ok)
    /\ ok => ~tokenFired
    /\ IF ok
       THEN /\ loop' = "generate"
            /\ UNCHANGED pendingMeta
       ELSE /\ loop' = "select"
            /\ pendingMeta' = NoMeta
    /\ UNCHANGED <<originalWallpaper, desktop, timer, stops, restoreAttempts,
                   restored, emitted, arrivals>>
    /\ UNCHANGED <<monRest, events, closed, tokenFired, clock>>
    /\ UNCHANGED stopResult

\* a mutant of PipeGenerate: the error of Generate is not looked at
PipeGenerateUnchecked(ok) ==
    /\ loop = "generate"
    /\ runs' = Invoked("generate", ok)
    /\ loop' = "apply"
    /\ UNCHANGED pendingMeta
    /\ UNCHANGED <<originalWallpaper, desktop, timer, stops, restoreAttempts,
                   restored, emitted, arrivals>>
    /\ UNCHANGED <<monRest, events, closed, tokenFired, clock>>
    /\ UNCHANGED stopResult

\* lines 133-138: e.processor.Generate(imgData, mode)
PipeGenerate(ok) ==
    /\ loop = "generate"
    /\ runs' = Invoked("generate", ok)
    /\ IF ok
       THEN /\ loop' = "apply"
            /\ UNCHANGED pendingMeta
       ELSE /\ loop' = "select"
            /\ pendingMeta' = NoMeta
    /\ UNCHANGED <<originalWallpaper, desktop, timer, stops, restoreAttempts,
                   restored, emitted, arrivals>>
    /\ UNCHANGED <<monRest, events, closed, tokenFired, clock>>
    /\ UNCHANGED stopResult

\* lines 141-148: e.executor.SetWallpaper(ctx, wallpaperPath); runLoop line 97
PipeApply(ok) ==
    /\ loop = "apply"
    /\ runs' = Invoked("apply", ok)
    /\ desktop' = IF ok THEN GeneratedPath ELSE desktop
    /\ loop' = "select"
    /\ pendingMeta' = NoMeta
    /\ UNCHANGED <<originalWallpaper, timer, stops, restoreAttempts,
                   restored, emitted, arrivals>>
    /\ UNCHANGED <<monRest, events, closed, tokenFired, clock>>
    /\ UNCHANGED stopResult

\* ------------------------------------------------------------------------
\* Engine.Stop(ctx)
\* ------------------------------------------------------------------------

\* lines 152-171: SetWallpaper(ctx, e.originalWallpaper) succeeds or fails
\* Engine.Stop, had it reported an error when no wallpaper was captured
EngineStopNeedsCapture(ok) ==
    /\ stops < MaxStops
    /\ stops' = stops + 1
    /\ IF originalWallpaper # ""
       THEN /\ restoreAttempts' = restoreAttempts + 1
            /\ desktop' = IF ok THEN originalWallpaper ELSE desktop
            /\ restored' = IF ok THEN restored + 1 ELSE restored
            /\ stopResult' = IF ok THEN "nil" ELSE "error"
       ELSE /\ UNCHANGED <<restoreAttempts, desktop, restored>>
            /\ stopResult' = "error"
    /\ UNCHANGED <<originalWallpaper, loop, pendingMeta, timer, emitted,
                   arrivals, runs>>
    /\ UNCHANGED <<monRest, events, closed, tokenFired, clock>>

EngineStop(ok) ==
    /\ stops < MaxStops
    /\ stops' = stops + 1
    /\ IF originalWallpaper # ""
       THEN /\ restoreAttempts' = restoreAttempts + 1
            /\ desktop' = IF ok THEN originalWallpaper ELSE desktop
            /\ restored' = IF ok THEN restored + 1 ELSE restored
            /\ stopResult' = IF ok THEN "nil" ELSE "error"
       ELSE /\ UNCHANGED <<restoreAttempts, desktop, restored>>
            /\ stopResult' = "nil"
    /\ UNCHANGED <<originalWallpaper, loop, pendingMeta, timer, emitted,
                   arrivals, runs>>
    /\ UNCHANGED <<monRest, events, closed, tokenFired, clock>>

\* ------------------------------------------------------------------------
\* The engine's environment: the monitor behind Events(), and time
\* ------------------------------------------------------------------------

\* the monitor puts a snapshot on Events(), max times at most
MonitorEmits(snap, max) ==
    /\ ~closed
    /\ emitted < max
    /\ emitted' = emitted + 1
    /\ events' = TrySend(events, closed, snap).q
    /\ UNCHANGED <<originalWallpaper, desktop, loop, pendingMeta, timer,
                   stops, restoreAttempts, restored, arrivals, runs>>
    /\ UNCHANGED <<monRest, closed, tokenFired, clock>>
    /\ UNCHANGED stopResult

\* the monitor's Stop closes Events()
MonitorCloses ==
    /\ ~closed
    /\ closed' = TRUE
    /\ UNCHANGED <<engVars, busVars, parseVars, hookVars, lockVars, scanVars, logVars>>
    /\ UNCHANGED <<monRest, events, tokenFired, clock>>

\* a case of runLoop's select can proceed
LoopReady ==
    /\ loop = "select"
    /\ tokenFired \/ events # << >> \/ closed \/ TimerReady

\* Time passes, by TickMs at most and not beyond the deadline of the timer
\* runLoop waits on.  A runLoop parked in its select is woken by the first
\* case that can proceed, so no time passes while one can.
Tick ==
    /\ ~LoopReady
    /\ clock < MaxClock
    /\ clock' = IF loop = "select" /\ timer.armed
                   /\ timer.deadline < clock + TickMs
                THEN timer.deadline
                ELSE clock + TickMs
    /\ UNCHANGED <<engVars, busVars, parseVars, hookVars, lockVars, scanVars, logVars>>
    /\ UNCHANGED <<monRest, events, closed, tokenFired>>

\* ------------------------------------------------------------------------
\* The lifecycle specification: Start and Stop invocations in any number and
\* interleaving, on a bus with one player
\* ------------------------------------------------------------------------

Bag1 == Bag(Str("Bohemian Rhapsody"), Strs(<<"Queen">>), Absent,
            Str("https://example.com/cover.jpg"))
Bag2 == Bag(Str("Imagine"), Str("John Lennon"), Str("Imagine"), Absent)

LifeListings == {<<OtherService, Spotify>>}
LifeOwners == {OwnerErr, OwnerIs(U1)}
LifeMd == {MdErr, MdMap(Bag1)}
LifeSt == {StErr, StStr("Playing")}
LifeSignals ==
    {Signal(PropertiesChanged, U1,
            <<BStr(PlayerInterface), BMap(SigMd(Bag1), SigSt("Playing")),
              BOther>>),
     Signal(NameOwnerChanged, EmptyName,
            <<BStr(Spotify), BStr(EmptyName), BStr(U1)>>)}

\* the steps of the invocations made, of their pumps, and of the environment
Running ==
    \/ \E i \in Ids, ok \in BOOLEAN : StartConnect(i, ok)
    \/ \E i \in Ids : StartCheck(i)
    \/ \E i \in Ids : StartSetConn(i)
    \/ \E i \in Ids : StartScanAdd(i)
    \/ \E i \in Ids, ok \in BOOLEAN, l \in LifeListings : ScanList(i, ok, l)
    \/ \E i \in Ids, ow \in LifeOwners, md \in LifeMd, st \in LifeSt :
          ScanStep(i, ow, md, st)
    \/ \E i \in Ids : ScanDone(i)
    \/ \E i \in Ids, ok \in BOOLEAN : StartMatch1(i, ok)
    \/ \E i \in Ids, ok \in BOOLEAN : StartMatch2(i, ok)
    \/ \E i \in Ids : StartLaunch(i)
    \/ \E i \in Ids : StartBlock(i)
    \/ \E i \in Ids : StopWait(i)
    \/ \E i \in Ids : StopClose(i)
    \/ \E i \in Ids : StopCloseConn(i)
    \/ \E i \in Ids : PumpExit(i)
    \/ \E i \in Ids, sig \in LifeSignals : PumpReceiveBounded(i, sig, MaxSignals)
    \/ \E i \in Ids, md \in LifeMd, st \in LifeSt : PumpHandle(i, md, st)
    \/ FireToken

MonitorNext ==
    \/ StartEnter(MaxCalls)
    \/ StopEnter(MaxCalls)
    \/ Running

\* no invocation is between its entry and its return, except a Start that
\* blocks until its context is done
Quiescent ==
    \A i \in Ids : pc[i] \in {"none", "returned", "failed", "stopped", "block"}

SeqNext ==
    \/ Quiescent /\ StartEnter(MaxSeqCalls)
    \/ Quiescent /\ StopEnter(MaxSeqCalls)
    \/ Running

vars == <<monVars, engVars, busVars, parseVars, hookVars, lockVars, scanVars, logVars>>

\* the bus before any player has a name on it
BusInit ==
    /\ rules = [i \in Ids |-> {}]
    /\ busOwner = [n \in BusNames |-> EmptyName]
    /\ inbox = << >>
    /\ busEvents = 0

\* no call of parseMetadata on its own
NoParse == [made |-> FALSE, metadata |-> NilBag, status |-> "",
            meta |-> parseMetadata(NilBag, "")]

ParseInit == parseIn = NoParse /\ parseOut = NoParse

\* the hook has not run
HookInit == hookStop = 0

\* no scan runs
ScanInit == scanned = [i \in Ids |-> << >>]

\* nothing has been logged
LogInit == warnings = << >>

\* a caller of getPlayerName that is not in it
NoLook == [pc |-> "idle", u |-> EmptyName, seen |-> EmptyRegistry,
           result |-> EmptyName]

\* nobody holds m.mu
LockInit ==
    /\ mu = [writer |-> FALSE, readers |-> 0]
    /\ held = EmptyRegistry
    /\ look = [r \in Readers |-> NoLook]

Init ==
    MonitorInit /\ EngineInit /\ BusInit /\ ParseInit /\ HookInit /\ LockInit
    /\ ScanInit
    /\ LogInit

Next == MonitorNext

Spec == Init /\ [][Next]_vars

\* the restart specification: the invocations are made one after another
SpecSeq == Init /\ [][SeqNext]_vars

\* ------------------------------------------------------------------------
\* The signal specification: one Start, never stopped, on a bus with two
\* players and two connections, which delivers MaxSigSignals signals of any
\* shape
\* ------------------------------------------------------------------------

SigListings == {<< >>, <<OtherService, Spotify, Vlc>>}
SigOwners == {OwnerErr, OwnerIs(U1), OwnerIs(U2)}
SigMdReads == {MdErr, MdOther, MdMap(Bag1)}
SigStReads == {StErr, StOther, StStr("Playing")}

\* what a changed-properties map holds under Metadata and PlaybackStatus
SigMdEntries == {NoMd, BadMd, SigMd(Bag2)}
SigStEntries == {NoSt, BadSt, SigSt("Paused")}

GoodProps == BMap(SigMd(Bag2), SigSt("Paused"))

PropertySignals ==
    {Signal(PropertiesChanged, U1, <<BStr(PlayerInterface), BMap(md, st), BOther>>) :
        md \in SigMdEntries, st \in SigStEntries}
    \cup
    {Signal(PropertiesChanged, U2, <<BStr(PlayerInterface), BMap(md, st), BOther>>) :
        md \in {NoMd, SigMd(Bag2)}, st \in {NoSt, SigSt("Paused")}}
    \cup
    {Signal(PropertiesChanged, U1, <<BStr(PlayerInterface), GoodProps>>),
     Signal(PropertiesChanged, U1, << >>),
     Signal(PropertiesChanged, U1, <<BStr(PlayerInterface)>>),
     Signal(PropertiesChanged, U1, <<BStr(RootInterface), GoodProps, BOther>>),
     Signal(PropertiesChanged, U1, <<BOther, GoodProps, BOther>>),
     Signal(PropertiesChanged, U1, <<BStr(PlayerInterface), BOther, BOther>>),
     Signal(SomeOtherSignal, U1, <<BStr(PlayerInterface), GoodProps, BOther>>)}

\* every change of owner of spotify; vlc appears on, leaves and moves from the
\* second connection; a name that is no player's; and malformed bodies
OwnerSignals ==
    {Signal(NameOwnerChanged, EmptyName, <<BStr(Spotify), BStr(old), BStr(new)>>) :
        old \in {EmptyName, U1, U2}, new \in {EmptyName, U1, U2}}
    \cup
    {Signal(NameOwnerChanged, EmptyName, <<BStr(Vlc), BStr(EmptyName), BStr(U2)>>),
     Signal(NameOwnerChanged, EmptyName, <<BStr(Vlc), BStr(U2), BStr(EmptyName)>>),
     Signal(NameOwnerChanged, EmptyName, <<BStr(Vlc), BStr(U2), BStr(U1)>>),
     Signal(NameOwnerChanged, EmptyName,
            <<BStr(OtherService), BStr(EmptyName), BStr(U1)>>),
     Signal(NameOwnerChanged, EmptyName,
            <<BStr(MprisRoot), BStr(EmptyName), BStr(U1)>>),
     Signal(NameOwnerChanged, EmptyName, <<BStr(Spotify), BStr(EmptyName)>>),
     Signal(NameOwnerChanged, EmptyName, <<BOther, BStr(EmptyName), BStr(U1)>>),
     Signal(NameOwnerChanged, EmptyName, <<BStr(Spotify), BOther, BStr(U1)>>)}

SigSignals == PropertySignals \cup OwnerSignals

SigNext ==
    \/ StartEnter(1)
    \/ \E i \in Ids, ok \in BOOLEAN : StartConnect(i, ok)
    \/ \E i \in Ids : StartCheck(i)
    \/ \E i \in Ids : StartSetConn(i)
    \/ \E i \in Ids : StartScanAdd(i)
    \/ \E i \in Ids, ok \in BOOLEAN, l \in SigListings : ScanList(i, ok, l)
    \/ \E i \in Ids, ow \in SigOwners, md \in SigMdReads, st \in SigStReads :
          ScanStep(i, ow, md, st)
    \/ \E i \in Ids : ScanDone(i)
    \/ \E i \in Ids, ok \in BOOLEAN : StartMatch1(i, ok)
    \/ \E i \in Ids : StartMatch2(i, TRUE)
    \/ \E i \in Ids : StartLaunch(i)
    \/ \E i \in Ids : StartBlock(i)
    \/ \E i \in Ids : PumpExit(i)
    \/ \E i \in Ids, sig \in SigSignals :
          PumpReceiveBounded(i, sig, MaxSigSignals)
    \/ \E i \in Ids, md \in SigMdReads, st \in SigStReads :
          PumpHandle(i, md, st)
    \/ FireToken

SpecSig == Init /\ [][SigNext]_vars

\* ------------------------------------------------------------------------
\* The queue specification: one Start, never stopped, on a bus where one
\* connection owns more player names than the queue has room for, with
\* signals without end and a reader of Events()
\* ------------------------------------------------------------------------

\* org.mpris.MediaPlayer2.instance, org.mpris.MediaPlayer2.instance.instance, ...
Instance(n) == PlayerPrefix \o [j \in 1 .. n |-> "instance"]

QueueListings == {<< >>, [n \in 1 .. QueueCap + 1 |-> Instance(n)]}
QueueOwners == {OwnerIs(U1)}
QueueMd == {MdErr, MdMap(Bag1)}
QueueSt == {StStr("Playing")}
QueueSignals ==
    {Signal(PropertiesChanged, U1, <<BStr(PlayerInterface), GoodProps, BOther>>),
     Signal(NameOwnerChanged, EmptyName,
            <<BStr(Vlc), BStr(EmptyName), BStr(U2)>>)}

QueueNext ==
    \/ StartEnter(1)
    \/ \E i \in Ids : StartConnect(i, TRUE)
    \/ \E i \in Ids : StartCheck(i)
    \/ \E i \in Ids : StartSetConn(i)
    \/ \E i \in Ids : StartScanAdd(i)
    \/ \E i \in Ids, l \in QueueListings : ScanList(i, TRUE, l)
    \/ \E i \in Ids, ow \in QueueOwners, md \in QueueMd, st \in QueueSt :
          ScanStep(i, ow, md, st)
    \/ \E i \in Ids : ScanDone(i)
    \/ \E i \in Ids : StartMatch1(i, TRUE)
    \/ \E i \in Ids : StartMatch2(i, TRUE)
    \/ \E i \in Ids : StartLaunch(i)
    \/ \E i \in Ids, sig \in QueueSignals : PumpReceive(i, sig)
    \/ \E i \in Ids, md \in QueueMd, st \in QueueSt : PumpHandle(i, md, st)
    \/ Consume

SpecQueue == Init /\ [][QueueNext]_vars

\* ------------------------------------------------------------------------
\* The warning specification: the queue specification's bus with a clock
\* that advances, so that snapshots are dropped at different times
\* ------------------------------------------------------------------------

WarnListings == {[n \in 1 .. QueueCap + 1 |-> Instance(n)]}
WarnMd == {MdMap(Bag1)}

WarnNext ==
    \/ StartEnter(1)
    \/ \E i \in Ids : StartConnect(i, TRUE)
    \/ \E i \in Ids : StartCheck(i)
    \/ \E i \in Ids : StartSetConn(i)
    \/ \E i \in Ids : StartScanAdd(i)
    \/ \E i \in Ids, l \in WarnListings : ScanList(i, TRUE, l)
    \/ \E i \in Ids, ow \in QueueOwners, md \in WarnMd, st \in QueueSt :
          ScanStep(i, ow, md, st)
    \/ \E i \in Ids : ScanDone(i)
    \/ \E i \in Ids : StartMatch1(i, TRUE)
    \/ \E i \in Ids : StartMatch2(i, TRUE)
    \/ \E i \in Ids : StartLaunch(i)
    \/ \E i \in Ids, sig \in QueueSignals : PumpReceive(i, sig)
    \/ \E i \in Ids, md \in WarnMd, st \in QueueSt : PumpHandle(i, md, st)
    \/ Consume
    \/ TimePasses

SpecWarn == Init /\ [][WarnNext]_vars

\* ------------------------------------------------------------------------
\* The engine specification: the engine's loop on a monitor that puts
\* MaxArrivals snapshots on Events() at any times and may close it, under a
\* ctx that may be cancelled
\* ------------------------------------------------------------------------

EngSnaps ==
    {parseMetadata(Bag1, "Playing"), parseMetadata(Bag1, "Paused"),
     parseMetadata(Bag2, "Playing")}

EngineNext ==
    \/ \E ok \in BOOLEAN : EngineStart(ok)
    \/ LoopCancel
    \/ LoopClosed
    \/ LoopReceive
    \/ LoopTimer
    \/ \E ok \in BOOLEAN : PipeFetch(ok)
    \/ \E ok \in BOOLEAN : PipeGenerate(ok)
    \/ \E ok \in BOOLEAN : PipeApply(ok)
    \/ \E snap \in EngSnaps : MonitorEmits(snap, MaxArrivals)
    \/ MonitorCloses
    \/ FireToken
    \/ Tick

SpecEngine == Init /\ [][EngineNext]_vars

\* the steps of the runLoop goroutine
LoopStep ==
    \/ LoopCancel
    \/ LoopClosed
    \/ LoopReceive
    \/ LoopTimer
    \/ \E ok \in BOOLEAN : PipeFetch(ok)
    \/ \E ok \in BOOLEAN : PipeGenerate(ok)
    \/ \E ok \in BOOLEAN : PipeApply(ok)

\* ------------------------------------------------------------------------
\* The drain specification: the engine's loop on a monitor that puts
\* MaxDrain snapshots on Events() and closes it at any moment, with the
\* runLoop goroutine scheduled while it can step: a stage it has called
\* returns, and a select with a case that can proceed takes one
\* ------------------------------------------------------------------------

DrainSnaps == {parseMetadata(Bag1, "Playing"), parseMetadata(Bag1, "Paused")}

DrainNext ==
    \/ \E ok \in BOOLEAN : EngineStart(ok)
    \/ LoopStep
    \/ \E snap \in DrainSnaps : MonitorEmits(snap, MaxDrain)
    \/ MonitorCloses
    \/ FireToken
    \/ Tick

SpecDrain == Init /\ [][DrainNext]_vars /\ WF_vars(LoopStep)

\* ------------------------------------------------------------------------
\* The stop specification: the engine with MaxStops calls of Engine.Stop
\* made at any moments, on a monitor that puts one snapshot on Events()
\* ------------------------------------------------------------------------

StopNext ==
    \/ \E ok \in BOOLEAN : EngineStart(ok)
    \/ \E ok \in BOOLEAN : EngineStop(ok)
    \/ LoopCancel
    \/ LoopClosed
    \/ LoopReceive
    \/ LoopTimer
    \/ \E ok \in BOOLEAN : PipeFetch(ok)
    \/ \E ok \in BOOLEAN : PipeGenerate(ok)
    \/ \E ok \in BOOLEAN : PipeApply(ok)
    \/ \E snap \in EngSnaps : MonitorEmits(snap, 1)
    \/ MonitorCloses
    \/ FireToken
    \/ Tick

SpecStop == Init /\ [][StopNext]_vars

\* ------------------------------------------------------------------------
\* The call specification: MaxStartCalls calls of Start and Stop made at any
\* moments, on a bus without players and without signals
\* ------------------------------------------------------------------------

CallNext ==
    \/ StartEnter(MaxStartCalls)
    \/ StopEnter(MaxStartCalls)
    \/ \E i \in Ids, ok \in BOOLEAN : StartConnect(i, ok)
    \/ \E i \in Ids : StartCheck(i)
    \/ \E i \in Ids : StartSetConn(i)
    \/ \E i \in Ids : StartScanAdd(i)
    \/ \E i \in Ids, ok \in BOOLEAN : ScanList(i, ok, << >>)
    \/ \E i \in Ids : ScanDone(i)
    \/ \E i \in Ids, ok \in BOOLEAN : StartMatch1(i, ok)
    \/ \E i \in Ids, ok \in BOOLEAN : StartMatch2(i, ok)
    \/ \E i \in Ids : StartLaunch(i)
    \/ \E i \in Ids : StartBlock(i)
    \/ \E i \in Ids : StopWait(i)
    \/ \E i \in Ids : StopClose(i)
    \/ \E i \in Ids : StopCloseConn(i)
    \/ \E i \in Ids : PumpExit(i)
    \/ FireToken

SpecCall == Init /\ [][CallNext]_vars

\* ------------------------------------------------------------------------
\* The parser specification: parseMetadata called once, on any of the bags
\* and status tokens below
\* ------------------------------------------------------------------------

StatusTokens ==
    {"Playing", "Paused", "Stopped", "", "playing", "PLAYING", "paused",
     "stopped", "Playing ", "Play", "Buffering", "Unknown"}

\* the nil bag, and every bag made of the values below under its four keys
ParseBags ==
    {NilBag} \cup
    {Bag(t, a, al, u) :
        t \in {Absent, Other, Str("Bohemian Rhapsody"), Str("Imagine")},
        a \in {Absent, Other, Str("John Lennon"), Str(""), Strs(<< >>),
               Strs(<<"Queen">>), Strs(<<"Queen", "David Bowie">>)},
        al \in {Absent, Other, Str("Imagine")},
        u \in {Absent, Other, Str(""), Str("https://example.com/cover.jpg")}}

ParseInputs ==
    {[made |-> TRUE, metadata |-> b, status |-> t,
      meta |-> parseMetadata(NilBag, "")] : b \in ParseBags, t \in StatusTokens}

ParseStart ==
    /\ MonitorInit
    /\ EngineInit
    /\ BusInit
    /\ HookInit
    /\ LockInit
    /\ ScanInit
    /\ LogInit
    /\ parseIn \in ParseInputs
    /\ parseOut = NoParse

\* meta := m.parseMetadata(metadata, status)
ParseCall ==
    /\ ~parseOut.made
    /\ parseOut' = [parseIn EXCEPT
                      !.meta = parseMetadata(parseIn.metadata, parseIn.status)]
    /\ UNCHANGED <<monVars, engVars, busVars, hookVars, lockVars, scanVars, logVars, parseIn>>

ParseNext == ParseCall

SpecParse == ParseStart /\ [][ParseNext]_vars

\* ------------------------------------------------------------------------
\* The monitor on a session bus: names change owner on the bus itself, the
\* scan reads the bus, and the connection receives the signals its match
\* rules select
\* ------------------------------------------------------------------------

\* conn.ListNames(): the names that have an owner, among other services
BusListing ==
    <<OtherService>>
    \o (IF busOwner[Spotify] # EmptyName THEN <<Spotify>> ELSE << >>)
    \o (IF busOwner[Vlc] # EmptyName THEN <<Vlc>> ELSE << >>)

\* conn.GetNameOwner(name)
BusNameOwner(name) ==
    IF name \in BusNames /\ busOwner[name] # EmptyName
    THEN OwnerIs(busOwner[name])
    ELSE OwnerErr

\* the connection is sent a signal when one of its match rules selects it
Subscribed(rule) == \E i \in Ids : rule \in rules[i] /\ conns[i] = "open"

BusMd == {MdErr, MdMap(Bag1)}
BusSt == {StStr("Playing")}

\* a player name is acquired, released or handed over; the bus broadcasts
\* NameOwnerChanged(name, old, new)
BusChange(name, new) ==
    /\ Alive
    /\ busEvents < MaxBusEvents
    /\ new # busOwner[name]
    /\ busOwner' = [busOwner EXCEPT ![name] = new]
    /\ busEvents' = busEvents + 1
    /\ inbox' = IF Subscribed("owner")
                THEN Append(inbox,
                            Signal(NameOwnerChanged, EmptyName,
                                   <<BStr(name), BStr(busOwner[name]), BStr(new)>>))
                ELSE inbox
    /\ UNCHANGED <<monVars, engVars, parseVars, hookVars, lockVars, scanVars, logVars, rules>>

\* the owner of a player name announces changed properties
BusPropertiesChanged(name) ==
    /\ Alive
    /\ busEvents < MaxBusEvents
    /\ busOwner[name] # EmptyName
    /\ busEvents' = busEvents + 1
    /\ inbox' = IF Subscribed("properties")
                THEN Append(inbox,
                            Signal(PropertiesChanged, busOwner[name],
                                   <<BStr(PlayerInterface), GoodProps, BOther>>))
                ELSE inbox
    /\ UNCHANGED <<monVars, engVars, parseVars, hookVars, lockVars, scanVars, logVars, rules, busOwner>>

\* sig := <-signals, of the signals the connection was sent
BusReceive(i) ==
    /\ inbox # << >>
    /\ Receive(i, Head(inbox))
    /\ inbox' = Tail(inbox)
    /\ UNCHANGED <<delivered, rules, busOwner, busEvents>>

\* the steps of Start and of its pump
BusProgram ==
    \/ StartEnter(1)
    \/ \E i \in Ids, ok \in BOOLEAN : StartConnect(i, ok)
    \/ \E i \in Ids : StartCheck(i)
    \/ \E i \in Ids : StartSetConn(i)
    \/ \E i \in Ids : StartScanAdd(i)
    \/ \E i \in Ids, ok \in BOOLEAN : ScanList(i, ok, BusListing)
    \/ \E i \in Ids, md \in BusMd, st \in BusSt :
          ScanStep(i, BusNameOwner(Head(names[i])), md, st)
    \/ \E i \in Ids : ScanDone(i)
    \/ \E i \in Ids, ok \in BOOLEAN : StartMatch1(i, ok)
    \/ \E i \in Ids, ok \in BOOLEAN : StartMatch2(i, ok)
    \/ \E i \in Ids : StartLaunch(i)
    \/ \E i \in Ids : BusReceive(i)
    \/ \E i \in Ids, md \in BusMd, st \in BusSt : PumpHandle(i, md, st)

BusNext ==
    \/ BusProgram
    \/ \E name \in BusNames, new \in {EmptyName, U1, U2} : BusChange(name, new)
    \/ \E name \in BusNames : BusPropertiesChanged(name)

SpecBus == Init /\ [][BusNext]_vars

\* the goroutines of Start and of the pump are scheduled while they can step
SpecBusFair == Init /\ [][BusNext]_vars /\ WF_vars(BusProgram)

\* ------------------------------------------------------------------------
\* The lock specification: handleNameOwnerChanged statement by statement,
\* with m.mu, next to goroutines that call getPlayerName
\* ------------------------------------------------------------------------

\* the signal takes one of the three branches
OwnerChange(sig) ==
    /\ sig.Name = NameOwnerChanged
    /\ Len(sig.Body) >= 3
    /\ sig.Body[1].k = "string"
    /\ HasPlayerPrefix(sig.Body[1].n)
    /\ AsString(sig.Body[2]) # EmptyName \/ AsString(sig.Body[3]) # EmptyName

\* lines 322, 338, 348: m.mu.Lock()
HandlerLock(i) ==
    /\ Alive
    /\ pump[i] = "handle"
    /\ OwnerChange(psig[i])
    /\ ~mu.writer /\ mu.readers = 0
    /\ mu' = [mu EXCEPT !.writer = TRUE]
    /\ held' = playerNames
    /\ pump' = [pump EXCEPT ![i] = "locked"]
    /\ UNCHANGED <<running, cancel, conn, wg, events, closed, playerNames,
                   panicked, tokenFired, ctxDone, conns, pc, names, target,
                   psig, calls, closes, delivered, clock, lastDropWarning,
                   last>>
    /\ UNCHANGED <<engVars, busVars, parseVars, scanVars, logVars, hookVars, look>>

\* the delete of lines 339 and 349, had the lock been released after it
HandlerDeleteReleasing(i) ==
    /\ Alive
    /\ pump[i] = "locked"
    /\ AsString(psig[i].Body[2]) # EmptyName
    /\ playerNames' = Dissociate(playerNames, AsString(psig[i].Body[2]))
    /\ mu' = [mu EXCEPT !.writer = FALSE]
    /\ pump' = [pump EXCEPT ![i] = IF AsString(psig[i].Body[3]) # EmptyName
                                   THEN "insert" ELSE "unlock"]
    /\ UNCHANGED <<running, cancel, conn, wg, events, closed, panicked,
                   tokenFired, ctxDone, conns, pc, names, target, psig, calls,
                   closes, delivered, clock, lastDropWarning, last>>
    /\ UNCHANGED <<engVars, busVars, parseVars, scanVars, logVars, hookVars, held, look>>

\* lines 339, 349: delete(m.playerNames, oldOwner)
HandlerDelete(i) ==
    /\ Alive
    /\ pump[i] = "locked"
    /\ AsString(psig[i].Body[2]) # EmptyName
    /\ playerNames' = Dissociate(playerNames, AsString(psig[i].Body[2]))
    /\ pump' = [pump EXCEPT ![i] = IF AsString(psig[i].Body[3]) # EmptyName
                                   THEN "insert" ELSE "unlock"]
    /\ UNCHANGED <<running, cancel, conn, wg, events, closed, panicked,
                   tokenFired, ctxDone, conns, pc, names, target, psig, calls,
                   closes, delivered, clock, lastDropWarning, last>>
    /\ UNCHANGED <<engVars, busVars, parseVars, hookVars, lockVars, scanVars, logVars>>

\* lines 323, 350: m.playerNames[newOwner] = name
HandlerInsert(i) ==
    /\ Alive
    /\ \/ pump[i] = "insert"
       \/ pump[i] = "locked" /\ AsString(psig[i].Body[2]) = EmptyName
    /\ playerNames' = Associate(playerNames, AsString(psig[i].Body[3]),
                                psig[i].Body[1].n)
    /\ pump' = [pump EXCEPT ![i] = "unlock"]
    /\ UNCHANGED <<running, cancel, conn, wg, events, closed, panicked,
                   tokenFired, ctxDone, conns, pc, names, target, psig, calls,
                   closes, delivered, clock, lastDropWarning, last>>
    /\ UNCHANGED <<engVars, busVars, parseVars, hookVars, lockVars, scanVars, logVars>>

\* lines 324, 340, 351: m.mu.Unlock()
HandlerUnlock(i) ==
    /\ Alive
    /\ pump[i] = "unlock"
    /\ mu' = [mu EXCEPT !.writer = FALSE]
    /\ pump' = [pump EXCEPT ![i] = "log"]
    /\ UNCHANGED <<running, cancel, conn, wg, events, closed, playerNames,
                   panicked, tokenFired, ctxDone, conns, pc, names, target,
                   psig, calls, closes, delivered, clock, lastDropWarning,
                   last>>
    /\ UNCHANGED <<engVars, busVars, parseVars, scanVars, logVars, hookVars, held, look>>

\* the rest of the branch: the log line, and for an appearance the fetch of
\* lines 331-335; then back to monitorSignals' select
HandlerReturn(i, md, st) ==
    /\ Alive
    /\ pump[i] = "log"
    /\ Up(conn) \/ (md.err /\ st.err)
    /\ LET r == handleNameOwnerChanged(psig[i], held, events, closed, md, st)
       IN  /\ events' = r.q
           /\ panicked' = IF r.panic THEN "send on closed channel" ELSE panicked
           /\ lastDropWarning' =
                 IF r.dropped
                 THEN logChannelFullWarning(clock, lastDropWarning)
                 ELSE lastDropWarning
           /\ warnings' =
                 IF r.dropped
                 THEN Logged(warnings, clock, lastDropWarning)
                 ELSE warnings
           /\ last' = Step("noc", r, r.dropped /\ Warns(clock, lastDropWarning))
    /\ pump' = [pump EXCEPT ![i] = "select"]
    /\ UNCHANGED <<running, cancel, conn, wg, closed, playerNames, tokenFired,
                   ctxDone, conns, pc, names, target, psig, calls, closes,
                   delivered, clock>>
    /\ UNCHANGED <<engVars, busVars, parseVars, hookVars, lockVars, scanVars>>

\* line 531: m.mu.RLock() in a call getPlayerName(u)
LookRLock(r, u) ==
    /\ Alive
    /\ look[r].pc = "idle"
    /\ ~mu.writer
    /\ mu' = [mu EXCEPT !.readers = @ + 1]
    /\ look' = [look EXCEPT ![r] = [NoLook EXCEPT !.pc = "rlocked", !.u = u]]
    /\ UNCHANGED <<monVars, engVars, busVars, parseVars, scanVars, logVars, hookVars, held>>

\* lines 534-537: the lookup
LookRead(r) ==
    /\ Alive
    /\ look[r].pc = "rlocked"
    /\ look' = [look EXCEPT ![r].pc = "read",
                            ![r].seen = playerNames,
                            ![r].result = getPlayerName(playerNames, look[r].u)]
    /\ UNCHANGED <<monVars, engVars, busVars, parseVars, scanVars, logVars, hookVars, mu, held>>

\* line 532: the deferred m.mu.RUnlock(), and the return
LookRUnlock(r) ==
    /\ Alive
    /\ look[r].pc = "read"
    /\ mu' = [mu EXCEPT !.readers = @ - 1]
    /\ look' = [look EXCEPT ![r] = NoLook]
    /\ UNCHANGED <<monVars, engVars, busVars, parseVars, scanVars, logVars, hookVars, held>>

\* the ownership changes of one player name between two connections
LockSignals ==
    {Signal(NameOwnerChanged, EmptyName, <<BStr(Vlc), BStr(o), BStr(n)>>) :
        o \in {EmptyName, U1, U2}, n \in {EmptyName, U1, U2}}
        \ {Signal(NameOwnerChanged, EmptyName,
                  <<BStr(Vlc), BStr(EmptyName), BStr(EmptyName)>>)}

LockNext ==
    \/ StartEnter(1)
    \/ \E i \in Ids : StartConnect(i, TRUE)
    \/ \E i \in Ids : StartCheck(i)
    \/ \E i \in Ids : StartSetConn(i)
    \/ \E i \in Ids : StartScanAdd(i)
    \/ \E i \in Ids : ScanList(i, TRUE, << >>)
    \/ \E i \in Ids : ScanDone(i)
    \/ \E i \in Ids : StartMatch1(i, TRUE)
    \/ \E i \in Ids : StartMatch2(i, TRUE)
    \/ \E i \in Ids : StartLaunch(i)
    \/ \E i \in Ids, sig \in LockSignals :
          PumpReceiveBounded(i, sig, MaxLockSignals)
    \/ \E i \in Ids : HandlerLock(i)
    \/ \E i \in Ids : HandlerDelete(i)
    \/ \E i \in Ids : HandlerInsert(i)
    \/ \E i \in Ids : HandlerUnlock(i)
    \/ \E i \in Ids, md \in LifeMd, st \in LifeSt : HandlerReturn(i, md, st)
    \/ \E r \in Readers, u \in {U1, U2} : LookRLock(r, u)
    \/ \E r \in Readers : LookRead(r)
    \/ \E r \in Readers : LookRUnlock(r)

SpecLock == Init /\ [][LockNext]_vars

\* ------------------------------------------------------------------------
\* The shutdown specification: the application as main.go runs it.  OnStart
\* launches Monitor.Start in a goroutine and calls Engine.Start; main waits
\* for the interrupt; OnStop calls Engine.Stop and then Monitor.Stop.
\* ------------------------------------------------------------------------

\* the goroutine OnStart launched has entered Monitor.Start
StartLaunched == calls > (IF hookStop = 0 THEN 0 ELSE 1)

\* OnStart: go func() { mon.Start(ctx) }()
HookStartMonitor == ~StartLaunched /\ StartEnter(2)

\* main: <-ctx.Done(), then app.Stop; OnStop: eng.Stop(ctx), whose error is
\* logged and nothing more
HookStopEngine(ok) ==
    /\ tokenFired
    /\ loop # "off"
    /\ stops = 0
    /\ EngineStop(ok)

\* OnStop: mon.Stop(ctx), once eng.Stop has returned
HookStopMonitor ==
    /\ stops > 0
    /\ hookStop = 0
    /\ StopCall(2)
    /\ hookStop' = calls + 1

\* OnStop has returned
HookDone == hookStop # 0 /\ pc[hookStop] \in {"returned", "stopped"}

\* the steps of the program's goroutines
ShutdownProgram ==
    \/ HookStartMonitor
    \/ \E ok \in BOOLEAN : EngineStart(ok)
    \/ \E ok \in BOOLEAN : HookStopEngine(ok)
    \/ HookStopMonitor
    \/ \E i \in Ids, ok \in BOOLEAN : StartConnect(i, ok)
    \/ \E i \in Ids : StartCheck(i)
    \/ \E i \in Ids : StartSetConn(i)
    \/ \E i \in Ids : StartScanAdd(i)
    \/ \E i \in Ids, ok \in BOOLEAN, l \in LifeListings : ScanList(i, ok, l)
    \/ \E i \in Ids, ow \in LifeOwners, md \in LifeMd, st \in LifeSt :
          ScanStep(i, ow, md, st)
    \/ \E i \in Ids : ScanDone(i)
    \/ \E i \in Ids, ok \in BOOLEAN : StartMatch1(i, ok)
    \/ \E i \in Ids, ok \in BOOLEAN : StartMatch2(i, ok)
    \/ \E i \in Ids : StartLaunch(i)
    \/ \E i \in Ids : StartBlock(i)
    \/ \E i \in Ids : StopWait(i)
    \/ \E i \in Ids : StopClose(i)
    \/ \E i \in Ids : StopCloseConn(i)
    \/ \E i \in Ids : PumpExit(i)
    \/ \E i \in Ids, md \in LifeMd, st \in LifeSt : PumpHandle(i, md, st)

\* and those of the bus and of the user
ShutdownNext ==
    \/ ShutdownProgram
    \/ \E i \in Ids, sig \in LifeSignals : PumpReceiveBounded(i, sig, MaxSignals)
    \/ FireToken

SpecShutdown == Init /\ [][ShutdownNext]_vars

\* the goroutines of main, of Start and of the pump are scheduled while they
\* can step
SpecShutdownFair == SpecShutdown /\ WF_vars(ShutdownProgram)

\* ------------------------------------------------------------------------
\* Claims about the monitor's lifecycle
\* ------------------------------------------------------------------------

\* the initial scan of Start invocation i is executing
ScanExecuting(i) == pc[i] \in {"list", "scan", "scanerr"}

\* the signal pump of Start invocation i is executing
PumpExecuting(i) == pump[i] \in {"select", "handle"}

\* C1: no snapshot send is ever attempted on the output queue after Stop has
\* closed it (such a send panics), in any interleaving of Start, Stop, the
\* initial scan and the signal pump.
C1_NoSendOnClosedQueue == panicked # "send on closed channel"

\* C2: when a Stop that found the monitor running has returned, neither the
\* initial scan nor the signal pump of the Start it cancelled is executing,
\* then or later.
C2_StoppedMeansProducersExited ==
    \A j \in Ids :
        (pc[j] = "stopped" /\ target[j] # 0) =>
            (~ScanExecuting(target[j]) /\ ~PumpExecuting(target[j]))

\* C3: Stop on a running monitor cancels, then waits on the barrier, then
\* closes the queue, then closes the connection: it passes the barrier only
\* with the context it cancelled done, it closes the queue only while the
\* barrier counts no live producer, and it closes the connection only after
\* the queue.
C3_StopOrder ==
    [][\A j \in Ids :
          /\ (pc[j] = "wait" /\ pc'[j] = "close") =>
                (target[j] # 0 => target[j] \in ctxDone)
          /\ (pc[j] = "close" /\ ~closed /\ closed') => wg = 0
          /\ (pc[j] = "closeconn" /\ pc'[j] = "stopped") => closed]_vars

\* C4: any number of Stop calls, with or without a prior Start, close the
\* output queue at most once and never panic, and a Stop on a monitor that is
\* not running changes no state.
C4_StopIdempotent ==
    [][/\ closes' <= 1
       /\ panicked' # "close of closed channel"
       /\ (calls' = calls + 1 /\ ~running /\ pc'[calls'] = "returned") =>
             UNCHANGED <<running, cancel, conn, wg, events, closed,
                         playerNames, panicked, ctxDone, conns, pump>>]_vars

\* ------------------------------------------------------------------------
\* Claims about the engine's shutdown and loop
\* ------------------------------------------------------------------------

\* C5: across all calls of the engine's Stop the captured original wallpaper
\* is applied at most once (no duplicate restoration).
C5_RestoredAtMostOnce == restored <= 1

\* the runs made for arrival n, i.e. while n was the last arrival
RunsOf(n) == {k \in 1 .. Len(runs) : runs[k].n = n}

\* a quiet period has passed after arrival n with no arrival in it, its last
\* instant included
QuietAfter(n) ==
    IF n < Len(arrivals)
    THEN arrivals[n + 1].at > arrivals[n].at + DebounceDuration
    ELSE clock > arrivals[n].at + DebounceDuration

\* arrival n was followed by another less than a quiet period later
Superseded(n) ==
    /\ n < Len(arrivals)
    /\ arrivals[n + 1].at < arrivals[n].at + DebounceDuration

\* C7: debounce.  Every pipeline run uses the snapshot that arrived last and
\* starts no earlier than one quiet period after that arrival; an arrival has
\* at most one run; a snapshot superseded within the quiet period has none;
\* and once a quiet period has passed after an arrival with no further
\* arrival, that arrival has exactly one run (as long as the loop has not
\* exited).
C7_Debounce ==
    /\ \A k \in 1 .. Len(runs) :
          /\ runs[k].n >= 1
          /\ runs[k].meta = arrivals[runs[k].n].meta
          /\ runs[k].at >= arrivals[runs[k].n].at + DebounceDuration
    /\ \A n \in 1 .. Len(arrivals) :
          /\ Cardinality(RunsOf(n)) <= 1
          /\ Superseded(n) => RunsOf(n) = {}
          /\ (QuietAfter(n) /\ (n = Len(arrivals) => loop # "exited")) =>
                Cardinality(RunsOf(n)) = 1

\* a burst of three snapshots, each less than a quiet period after the
\* previous one and the last differing from the one it supersedes, has had
\* its one run
C7_BurstOfThreeRunOnce ==
    /\ Len(arrivals) = 3
    /\ Len(runs) = 1
    /\ runs[1].n = 3
    /\ arrivals[1].at < arrivals[2].at
    /\ arrivals[2].at < arrivals[3].at
    /\ Superseded(1)
    /\ Superseded(2)
    /\ arrivals[2].meta # arrivals[3].meta

\* C8: once ctx is done the engine's loop starts no pipeline run.
C8_NoRunAfterCancellation ==
    \A k \in 1 .. Len(runs) : ~runs[k].cancelled

\* ------------------------------------------------------------------------
\* Claims about the queue and the signal handlers
\* ------------------------------------------------------------------------

\* C6: the queue never holds more than QueueCap snapshots, and an enqueue
\* attempt of the scan, of an appearance fetch or of the property-change
\* handler on a queue that holds QueueCap snapshots leaves the queue as it
\* was, discards the new snapshot, and the producer goes on.
C6_FullQueueDropsNew ==
    [][/\ Len(events') <= QueueCap
       /\ (last'.attempts = 1 /\ Len(events) = QueueCap) =>
             /\ events' = events
             /\ last'.dropped
             /\ last'.op = "scan" =>
                   \E i \in Ids : /\ pc[i] = "scan"
                                  /\ names[i] # << >>
                                  /\ names'[i] = Tail(names[i])
             /\ last'.op \in {"noc", "sig"} =>
                   \E i \in Ids : pump[i] = "handle" /\ pump'[i] = "select"]_vars

\* an appearance fetch has just dropped its snapshot on a full queue that
\* holds different snapshots
C6_AppearanceDropsAtFullQueue ==
    /\ last.op = "noc"
    /\ last.dropped
    /\ Len(events) = QueueCap
    /\ \E k \in 1 .. QueueCap : events[k] # events[1]

\* the claim's malformed and irrelevant property-change signals (and one whose
\* changed properties are not a map)
Malformed(sig) ==
    \/ sig.Name # PropertiesChanged
    \/ Len(sig.Body) < 2
    \/ sig.Body[1] # BStr(PlayerInterface)
    \/ sig.Body[2].k # "map"
    \/ sig.Body[2].md = NoMd /\ sig.Body[2].st = NoSt
    \/ sig.Body[2].md = BadMd
    \/ sig.Body[2].st = BadSt

\* C9: handling a malformed or irrelevant property-change signal attempts no
\* enqueue and leaves the queue as it was.
C9_MalformedSignalsEnqueueNothing ==
    [][\A i \in Ids :
          (/\ pump[i] = "handle"
           /\ pump'[i] = "select"
           /\ psig[i].Name # NameOwnerChanged
           /\ Malformed(psig[i])) =>
             (events' = events /\ last'.attempts = 0 /\ last'.reads = << >>)]_vars

\* a signal with a Metadata value that is no map and a valid PlaybackStatus
\* has just been handled, on a queue that holds a snapshot
C9_WrongTypedMetadataHandled ==
    \E i \in Ids :
        /\ pump[i] = "select"
        /\ last.op = "sig"
        /\ psig[i].Name = PropertiesChanged
        /\ Len(psig[i].Body) >= 2
        /\ psig[i].Body[1] = BStr(PlayerInterface)
        /\ psig[i].Body[2].md = BadMd
        /\ psig[i].Body[2].st = SigSt("Paused")
        /\ events # << >>

\* an appearance event: a player name, an empty old owner, a new owner
Appearance(sig) ==
    /\ sig.Name = NameOwnerChanged
    /\ Len(sig.Body) >= 3
    /\ sig.Body[1].k = "string"
    /\ HasPlayerPrefix(sig.Body[1].n)
    /\ sig.Body[2] = BStr(EmptyName)
    /\ sig.Body[3].k = "string"
    /\ sig.Body[3].n # EmptyName

\* C10: after an appearance event is handled the registry resolves the new
\* owner to the announced name, and one fetch was attempted, for that player;
\* when the fetch fails the handler returns as usual, with the entry in place.
C10_AppearanceRegistersAndFetchesOnce ==
    [][\A i \in Ids :
          (pump[i] = "handle" /\ pump'[i] = "select" /\ Appearance(psig[i])) =>
             /\ getPlayerName(playerNames', psig[i].Body[3].n) = psig[i].Body[1].n
             /\ psig[i].Body[3].n \in DOMAIN playerNames'
             /\ last'.fetches = 1
             /\ Len(last'.reads) >= 1
             /\ \A k \in 1 .. Len(last'.reads) :
                   last'.reads[k].dest = psig[i].Body[1].n
             /\ last'.attempts <= 1
             /\ panicked' = panicked]_vars

\* the fetch of an appearance event has just failed, and the registry holds
\* the new entry
C10_FetchFailedEntryKept ==
    \E i \in Ids :
        /\ pump[i] = "select"
        /\ last.op = "noc"
        /\ last.fetchErr
        /\ Appearance(psig[i])
        /\ psig[i].Body[3].n \in DOMAIN playerNames
        /\ playerNames[psig[i].Body[3].n] = psig[i].Body[1].n

\* ------------------------------------------------------------------------
\* Claims about the registry
\* ------------------------------------------------------------------------

\* a disappearance event: a player name, an old owner, an empty new owner
Disappearance(sig) ==
    /\ sig.Name = NameOwnerChanged
    /\ Len(sig.Body) >= 3
    /\ sig.Body[1].k = "string"
    /\ HasPlayerPrefix(sig.Body[1].n)
    /\ sig.Body[2].k = "string"
    /\ sig.Body[2].n # EmptyName
    /\ sig.Body[3] = BStr(EmptyName)

\* C11: after a disappearance event is handled the registry has no entry for
\* the old owner, and resolving the old owner returns the old owner itself.
C11_DisappearanceRemovesEntry ==
    [][\A i \in Ids :
          (pump[i] = "handle" /\ pump'[i] = "select" /\ Disappearance(psig[i])) =>
             /\ psig[i].Body[2].n \notin DOMAIN playerNames'
             /\ getPlayerName(playerNames', psig[i].Body[2].n) = psig[i].Body[2].n
             /\ \A u \in DOMAIN playerNames \ {psig[i].Body[2].n} :
                   u \in DOMAIN playerNames' /\ playerNames'[u] = playerNames[u]]_vars

\* a disappearance has just been handled: the old owner has no entry, and the
\* entry of the other connection is still there
C11_DisappearanceHandled ==
    \E i \in Ids :
        /\ pump[i] = "select"
        /\ last.op = "noc"
        /\ Disappearance(psig[i])
        /\ psig[i].Body[2].n \notin DOMAIN playerNames
        /\ playerNames # EmptyRegistry

\* C12: at any time after the initial scan, through any sequence of
\* ownership changes on the bus, no player name is the registry's value for
\* two distinct connection identities.
C12_NameHasOneIdentity ==
    \A u, v \in DOMAIN playerNames :
        playerNames[u] = playerNames[v] => u = v

\* an identity is in the registry although its name is no longer its own on
\* the bus
Vacated(u) ==
    /\ u \in DOMAIN playerNames
    /\ busOwner[playerNames[u]] # u

\* Start has returned: the monitor is not started
StartEnded == \E i \in Ids : pc[i] \in {"returned", "failed"}

\* C13: a registry entry whose connection no longer owns the name on the bus
\* is eventually removed, as long as the monitor stays started.
C13_VacatedEntryEventuallyRemoved ==
    \A u \in {U1, U2} :
        Vacated(u) ~> (u \notin DOMAIN playerNames \/ StartEnded)

\* ------------------------------------------------------------------------
\* Claims about Start
\* ------------------------------------------------------------------------

\* no Stop has been called on the monitor
NeverStopped ==
    \A i \in Ids : pc[i] \notin {"wait", "close", "closeconn", "stopped"}

\* C14: a Start called while the monitor is running returns at once and
\* changes nothing (the flag, the cancel function, the connection, the wait
\* group, the queue, the registry, the match rules and the pumps stay as they
\* are) and never acts afterwards; so as long as no Stop is called, at most
\* one of any number of Start calls has made a connection and launched a pump.
C14_StartWhileRunningIsNoOp ==
    [][/\ (calls' = calls + 1 /\ running /\ pc'[calls + 1] # "wait") =>
            /\ pc'[calls + 1] = "returned"
            /\ UNCHANGED <<running, cancel, conn, wg, events, closed,
                           playerNames, panicked, ctxDone, conns, names,
                           pump, rules>>
       /\ \A i \in Ids : pc[i] = "returned" => pc'[i] = "returned"
       /\ NeverStopped' =>
            /\ Cardinality({i \in Ids : conns'[i] # "none"}) <= 1
            /\ Cardinality({i \in Ids : pump'[i] # "off"}) <= 1
            /\ Cardinality({i \in Ids : rules'[i] # {}}) <= 1]_vars

C14_ThreeStartsOnePump ==
    /\ NeverStopped
    /\ calls = 3
    /\ pc[1] = "block"
    /\ pump[1] = "select"
    /\ pc[2] = "returned"
    /\ pc[3] = "returned"
    /\ conns = [i \in Ids |-> IF i = 1 THEN "open" ELSE "none"]

\* a Start that is between its entry and its return
Starting(i) ==
    pc[i] \in {"connect", "check", "setconn", "wgadd", "list", "scan",
               "scanerr", "match1", "match2", "launch", "block"}

\* C15: when NewStdDBusClient fails, Start returns the error and the monitor
\* is idle again: the running flag and the cancel function are cleared, no
\* open connection is stored, the failing call has made no connection, scan,
\* match rule or pump, and nothing of the monitor is left running that a Stop
\* has not cancelled.
C15_FailedConnectLeavesIdle ==
    [][\A i \in Ids :
          (pc[i] = "connect" /\ pc'[i] = "failed") =>
             /\ running' = FALSE
             /\ cancel' = 0
             /\ conn' = 0 \/ conns'[conn'] # "open"
             /\ conns'[i] = "none"
             /\ names'[i] = << >>
             /\ rules'[i] = {}
             /\ pump'[i] = "off"
             /\ \A j \in Ids \ {i} :
                   (Starting(j)' \/ pump'[j] \in {"select", "handle"}) =>
                       Done(j)']_vars

\* C16: when the context of a Start is done at the check that follows the
\* connection, that Start closes the connection it made and returns; it
\* stores no connection, lists no names, adds no match rule, launches no
\* pump, and leaves the wait group, the registry and the queue as they are.
C16_DoneAtCheckClosesAndReturns ==
    [][\A i \in Ids :
          (pc[i] = "check" /\ pc'[i] # "check" /\ Done(i)) =>
             /\ conns[i] = "open"
             /\ conns'[i] = "closed"
             /\ pc'[i] = "returned"
             /\ names'[i] = << >>
             /\ rules'[i] = {}
             /\ pump'[i] = "off"
             /\ UNCHANGED <<conn, wg, playerNames, events, closed>>]_vars

C16_ReturnedAtCheck ==
    \E i \in Ids :
        /\ tokenFired
        /\ pc[i] = "returned"
        /\ conns[i] = "closed"
        /\ pump[i] = "off"
        /\ conn = 0
        /\ events = << >>

\* C17: when the PropertiesChanged match rule cannot be added Start ends
\* with an error and its pump is never launched; when only the
\* NameOwnerChanged rule cannot be added Start goes on, launches the pump, and
\* the pump handles the PropertiesChanged signals it receives (one enqueue
\* attempt of the snapshot the signal carries).
C17_SubscriptionFailures ==
    [][\A i \in Ids :
          /\ (pc[i] = "match1" /\ pc'[i] # "match1") =>
                IF "properties" \in rules'[i]
                THEN pc'[i] = "match2"
                ELSE pc'[i] = "failed" /\ pump'[i] = "off"
          /\ pc[i] = "failed" => pc'[i] = "failed" /\ pump'[i] = "off"
          /\ (pc[i] = "match2" /\ pc'[i] # "match2") =>
                /\ pc'[i] = "launch"
                /\ "properties" \in rules'[i]
          /\ (pc[i] = "launch" /\ pc'[i] # "launch") => pump'[i] = "select"
          /\ (/\ pump[i] = "handle"
              /\ pump'[i] = "select"
              /\ "owner" \notin rules[i]) =>
                /\ psig[i].Name = PropertiesChanged
                /\ last'.op = "sig"
                /\ last'.attempts = 1
                /\ events' = Append(events, parseMetadata(Bag2, "Paused"))]_vars

C17_PumpWithoutOwnerRuleHandled ==
    /\ pc[1] = "block"
    /\ rules[1] = {"properties"}
    /\ pump[1] = "select"
    /\ last.op = "sig"
    /\ events # << >>
    /\ events[Len(events)] = parseMetadata(Bag2, "Paused")

\* ------------------------------------------------------------------------
\* Claims about the pipeline
\* ------------------------------------------------------------------------

StageOrder == <<"fetch", "generate", "apply">>

\* the k-th run is over
RunOver(k) == k < Len(runs) \/ loop \notin {"fetch", "generate", "apply"}

\* C18: a run for a snapshot that is not Playing, or has no artwork URL,
\* invokes no stage; a run for a Playing snapshot with artwork invokes fetch,
\* generate, apply in this order, each at most once, starting with fetch and
\* going on to the next stage after each stage that succeeds.
C18_StagesInOrder ==
    \A k \in 1 .. Len(runs) :
        LET r == runs[k]
            n == Len(r.stages)
        IN  /\ (r.meta.Status # StatusPlaying \/ r.meta.ArtUrl = "") => n = 0
            /\ n <= 3
            /\ \A j \in 1 .. n : r.stages[j].stage = StageOrder[j]
            /\ (/\ r.meta.Status = StatusPlaying
                /\ r.meta.ArtUrl # ""
                /\ RunOver(k)) =>
                  /\ n >= 1
                  /\ n < 3 => ~r.stages[n].ok

C18_SkippedRunAndFullRun ==
    \E k1, k2 \in 1 .. Len(runs) :
        /\ runs[k1].meta.Status # StatusPlaying
        /\ runs[k1].stages = << >>
        /\ runs[k2].meta.Status = StatusPlaying
        /\ runs[k2].meta.ArtUrl = ""
        /\ runs[k2].stages = << >>
        /\ \E k3 \in 1 .. Len(runs) :
              /\ Len(runs[k3].stages) = 3
              /\ \A j \in 1 .. 3 : runs[k3].stages[j].ok

\* the k-th run is over and its last stage failed
FailedRun(k) ==
    /\ RunOver(k)
    /\ runs[k].stages # << >>
    /\ ~runs[k].stages[Len(runs[k].stages)].ok

\* C19: a failing stage ends its run and nothing else.  In every run each
\* stage but the last invoked has succeeded (so apply is invoked only after a
\* successful fetch and a successful generate); after a failed run the loop
\* is still running unless the context is done or the events channel closed;
\* and every snapshot received after a failed run and followed by a quiet
\* period has its own run.
C19_FailureAbortsOnlyItsRun ==
    \A k \in 1 .. Len(runs) :
        /\ \A j \in 1 .. Len(runs[k].stages) - 1 : runs[k].stages[j].ok
        /\ FailedRun(k) =>
              /\ loop = "exited" => tokenFired \/ closed
              /\ \A n \in runs[k].n + 1 .. Len(arrivals) :
                    (QuietAfter(n) /\ (n = Len(arrivals) => loop # "exited")) =>
                        Cardinality(RunsOf(n)) = 1

C19_RunAfterFailedRun ==
    /\ Len(runs) = 2
    /\ FailedRun(1)
    /\ Len(runs[1].stages) = 2
    /\ runs[2].n > runs[1].n
    /\ Len(runs[2].stages) = 3
    /\ runs[2].stages[3].ok
    /\ ~tokenFired

\* ------------------------------------------------------------------------
\* Claims about the parser
\* ------------------------------------------------------------------------

\* C20: the status of the snapshot parseMetadata returns is Playing for the
\* token "Playing", Paused for the token "Paused", and Stopped for every
\* other token ("Stopped", the empty token, tokens in another case or
\* otherwise unrecognised), whatever the property bag; it is always one of
\* the three statuses.
C20_StatusMappingTotal ==
    parseOut.made =>
        /\ parseOut.meta.Status \in {StatusPlaying, StatusPaused, StatusStopped}
        /\ parseOut.status = "Playing" => parseOut.meta.Status = StatusPlaying
        /\ parseOut.status = "Paused" => parseOut.meta.Status = StatusPaused
        /\ parseOut.status \notin {"Playing", "Paused"} =>
              parseOut.meta.Status = StatusStopped

C20_UnrecognisedTokenParsed ==
    /\ parseOut.made
    /\ parseOut.status = "playing"
    /\ parseOut.metadata = Bag1
    /\ parseOut.meta.Status = StatusStopped
    /\ parseOut.meta.Title = "Bohemian Rhapsody"

\* C21: the artist of the snapshot is the first element of a sequence of
\* strings (empty for the empty sequence), the string itself for a single
\* string, and empty for an absent key or a value of another type; title,
\* album and artwork are those of the bag all the same.
C21_ArtistField ==
    (parseOut.made /\ ~parseOut.metadata.nil) =>
        LET v == parseOut.metadata.artist
            b == parseOut.metadata
            out == parseOut.meta
        IN  /\ (v.k = "strings" /\ v.l # << >>) => out.Artist = Head(v.l)
            /\ (v.k = "strings" /\ v.l = << >>) => out.Artist = ""
            /\ v.k = "string" => out.Artist = v.s
            /\ v.k \in {"absent", "other"} => out.Artist = ""
            /\ b.title.k = "string" => out.Title = b.title.s
            /\ b.album.k = "string" => out.Album = b.album.s
            /\ b.artUrl.k = "string" => out.ArtUrl = b.artUrl.s

C21_WrongTypedArtistParsed ==
    /\ parseOut.made
    /\ parseOut.metadata.artist = Other
    /\ parseOut.meta.Artist = ""
    /\ parseOut.meta.Title = "Imagine"
    /\ parseOut.meta.Album = "Imagine"
    /\ parseOut.meta.ArtUrl = "https://example.com/cover.jpg"

\* C22: for every bag, the nil bag included, and every status token, title,
\* album and artwork of the snapshot are the value under their key when it
\* is present and a string, and empty otherwise; an empty artwork string and
\* no artwork key both give the empty artwork.
C22_StringFields ==
    parseOut.made =>
        LET b == parseOut.metadata
            out == parseOut.meta
            Expected(v) == IF ~b.nil /\ v.k = "string" THEN v.s ELSE ""
        IN  /\ out.Title = Expected(b.title)
            /\ out.Album = Expected(b.album)
            /\ out.ArtUrl = Expected(b.artUrl)
            /\ DOMAIN out = {"Title", "Artist", "Album", "ArtUrl", "Status"}

C22_EmptyArtworkParsed ==
    /\ parseOut.made
    /\ parseOut.metadata.artUrl = Str("")
    /\ parseOut.metadata.title = Other
    /\ parseOut.metadata.album = Str("Imagine")
    /\ parseOut.meta.ArtUrl = ""
    /\ parseOut.meta.Title = ""
    /\ parseOut.meta.Album = "Imagine"

\* ------------------------------------------------------------------------
\* Claims about the restart of the monitor
\* ------------------------------------------------------------------------

\* C23: a Start made after a Stop has completed works on an open queue: the
\* queue is not closed while that Start is in progress, nothing is sent on a
\* closed queue and no Stop closes a queue that is closed already.
C23_RestartOnOpenQueue ==
    /\ panicked = "none"
    /\ \A i, j \in Ids :
          (pc[i] = "stopped" /\ j > i /\ Starting(j)) => ~closed

\* ------------------------------------------------------------------------
\* Claims about the registry's operations
\* ------------------------------------------------------------------------

\* C24: on every registry the monitor reaches, for every identity u and
\* player name n: getPlayerName(u) is the name of u's entry, or u itself when
\* u has no entry; deleting u when it has no entry changes nothing, and
\* deleting it twice gives what deleting it once gives; storing n under u
\* gives a registry that maps u to n, whatever u was mapped to, and leaves the
\* other entries alone.
C24_RegistryOperations ==
    \A u \in {U1, U2, EmptyName}, n \in BusNames :
        /\ u \in DOMAIN playerNames =>
              getPlayerName(playerNames, u) = playerNames[u]
        /\ u \notin DOMAIN playerNames =>
              /\ getPlayerName(playerNames, u) = u
              /\ Dissociate(playerNames, u) = playerNames
        /\ u \notin DOMAIN Dissociate(playerNames, u)
        /\ Dissociate(Dissociate(playerNames, u), u) = Dissociate(playerNames, u)
        /\ Associate(playerNames, u, n)[u] = n
        /\ DOMAIN Associate(playerNames, u, n) = DOMAIN playerNames \cup {u}
        /\ \A v \in DOMAIN playerNames \ {u} :
              /\ Associate(playerNames, u, n)[v] = playerNames[v]
              /\ Dissociate(playerNames, u)[v] = playerNames[v]

\* the second connection has left a registry that still holds the first
C24_AbsentIdentityDissociated ==
    /\ pump[1] = "select"
    /\ last.op = "noc"
    /\ delivered = 2
    /\ Disappearance(psig[1])
    /\ psig[1].Body[2].n = U2
    /\ DOMAIN playerNames = {U1}
    /\ getPlayerName(playerNames, U2) = U2
    /\ getPlayerName(playerNames, U1) = Vlc

\* ------------------------------------------------------------------------
\* Claims about the engine's start and stop, and the application's shutdown
\* ------------------------------------------------------------------------

\* C25: Engine.Start always succeeds and leaves runLoop started, whether
\* GetCurrentWallpaper succeeded or failed; e.originalWallpaper is written
\* by Start alone, and is the desktop's wallpaper of that moment when the
\* capture succeeded and empty when it failed.  A call of Engine.Stop after a
\* successful capture of P makes exactly one SetWallpaper call, with P: the
\* desktop shows P when that call succeeds and is left as it was when it
\* fails, and Stop returns nil exactly when it succeeds.  A call of Stop after
\* a failed capture makes no SetWallpaper call, leaves the desktop as it
\* was, and returns nil.
C25_RestorationFollowsCapture ==
    [][/\ (loop = "off" /\ loop' # "off") =>
             /\ loop' = "select"
             /\ originalWallpaper' \in {desktop, ""}
       /\ originalWallpaper' # originalWallpaper =>
             /\ loop = "off"
             /\ originalWallpaper' = desktop
       /\ stops' = stops + 1 =>
             IF originalWallpaper # ""
             THEN /\ restoreAttempts' = restoreAttempts + 1
                  /\ restored' \in {restored, restored + 1}
                  /\ desktop' = IF restored' > restored
                                THEN originalWallpaper ELSE desktop
                  /\ stopResult' = IF restored' > restored
                                   THEN "nil" ELSE "error"
             ELSE /\ restoreAttempts' = restoreAttempts
                  /\ restored' = restored
                  /\ desktop' = desktop
                  /\ stopResult' = "nil"]_vars

\* a generated wallpaper was applied, and Stop has put the captured one back
C25_CapturedWallpaperRestored ==
    /\ stops = 1
    /\ restored = 1
    /\ stopResult = "nil"
    /\ originalWallpaper = OriginalPath
    /\ desktop = OriginalPath
    /\ \E k \in 1 .. Len(runs) :
          /\ Len(runs[k].stages) = 3
          /\ runs[k].stages[3].ok

\* C26: once Engine.Stop has returned an error to OnStop, the shutdown goes
\* on: OnStop calls Monitor.Stop, which cancels the monitor's context, waits
\* for its goroutines, closes the queue and the connection, and returns, so
\* that OnStop returns too.
C26_FailedRestorationShutsDown ==
    (stopResult = "error") ~>
        (/\ HookDone
         /\ panicked = "none"
         /\ pc[hookStop] = "stopped" =>
               /\ target[hookStop] \in ctxDone
               /\ closed)

\* ------------------------------------------------------------------------
\* Claims about the registry's lock
\* ------------------------------------------------------------------------

\* the signal is an ownership transfer of a player name
Transfer(sig) ==
    /\ OwnerChange(sig)
    /\ AsString(sig.Body[2]) # EmptyName
    /\ AsString(sig.Body[3]) # EmptyName

\* C27: a call of getPlayerName that has read the registry while the handler
\* is handling an ownership transfer, from the receipt of the signal to the
\* handler's return, has read it while no writer held m.mu, and has read
\* either the registry of before the transfer or the registry of after it
\* (the previous owner's entry deleted, the new owner mapped to the name),
\* never the one in between.  When the previous owner resolved to the name
\* before the transfer and the new owner did not, exactly one of the two
\* resolves to the name in the registry the call has read; and the handler
\* leaves the registry that handleNameOwnerChanged computes in one step.
C27_TransferAtomicForLookups ==
    \A i \in Ids :
        (pump[i] \in {"handle", "locked", "insert", "unlock", "log"}
            /\ Transfer(psig[i])) =>
        LET name == psig[i].Body[1].n
            old == AsString(psig[i].Body[2])
            new == AsString(psig[i].Body[3])
            before == IF pump[i] = "handle" THEN playerNames ELSE held
            after == Associate(Dissociate(before, old), new, name)
        IN  /\ pump[i] = "log" =>
                  /\ playerNames = after
                  /\ playerNames =
                        handleNameOwnerChanged(psig[i], held, events, closed,
                                               MdErr, StErr).reg
            /\ \A r \in Readers :
                  look[r].pc = "read" =>
                      /\ ~mu.writer
                      /\ look[r].seen = playerNames
                      /\ look[r].seen \in {before, after}
                      /\ look[r].result = getPlayerName(look[r].seen, look[r].u)
                      /\ (/\ old # new
                          /\ getPlayerName(before, old) = name
                          /\ getPlayerName(before, new) # name) =>
                            (getPlayerName(look[r].seen, old) = name)
                                # (getPlayerName(look[r].seen, new) = name)

\* a lookup of the new owner made after the transfer's unlock and before the
\* handler's return has got the name, where the previous owner had it before
C27_LookupAfterTransfer ==
    \E r \in Readers :
        /\ pump[1] = "log"
        /\ Transfer(psig[1])
        /\ psig[1].Body[2].n = U1
        /\ psig[1].Body[3].n = U2
        /\ getPlayerName(held, U1) = Vlc
        /\ getPlayerName(held, U2) = U2
        /\ look[r].pc = "read"
        /\ look[r].u = U2
        /\ look[r].result = Vlc
        /\ getPlayerName(look[r].seen, U1) = U1

\* ------------------------------------------------------------------------
\* Claims about the on-demand reads of handleSignal
\* ------------------------------------------------------------------------

\* C28: handling a well-typed property-change signal that carries only the
\* status reads the Metadata property once and nothing else, handling one that
\* carries only the metadata reads the PlaybackStatus property once and
\* nothing else, both from the signal's sender; handling one that carries both
\* reads nothing.
C28_ReadsWhatTheSignalLacks ==
    [][\A i \in Ids :
          (/\ pump[i] = "handle"
           /\ pump'[i] = "select"
           /\ psig[i].Name = PropertiesChanged
           /\ ~Malformed(psig[i])) =>
             last'.reads =
                 IF psig[i].Body[2].md = NoMd
                 THEN <<Read(psig[i].Sender, "Metadata")>>
                 ELSE IF psig[i].Body[2].st = NoSt
                 THEN <<Read(psig[i].Sender, "PlaybackStatus")>>
                 ELSE << >>]_vars

\* a status-only signal of a registered player has just been handled, with
\* one read of Metadata from the sender's connection
C28_StatusOnlyReadMetadata ==
    /\ pump[1] = "select"
    /\ last.op = "sig"
    /\ psig[1].Name = PropertiesChanged
    /\ Len(psig[1].Body) >= 2
    /\ psig[1].Body[2] = BMap(NoMd, SigSt("Paused"))
    /\ psig[1].Sender \in DOMAIN playerNames
    /\ last.reads = <<Read(psig[1].Sender, "Metadata")>>

\* C29: handling a well-typed property-change signal makes exactly one
\* enqueue attempt, whatever the on-demand read returns.  For a status-only
\* signal whose Metadata read fails or returns no map, the snapshot has the
\* signal's status and empty title, artist, album and artwork; for a
\* metadata-only signal whose PlaybackStatus read fails or returns no string,
\* the snapshot is the signal's metadata parsed, with status Stopped.  The
\* snapshot is put on the queue when the queue has room.
C29_FailedReadStillEnqueues ==
    [][\A i \in Ids :
          (/\ pump[i] = "handle"
           /\ pump'[i] = "select"
           /\ psig[i].Name = PropertiesChanged
           /\ ~Malformed(psig[i])) =>
             LET props == psig[i].Body[2]
                 room == ~closed /\ Len(events) < QueueCap
                 sent == events'[Len(events')]
             IN  /\ last'.attempts = 1
                 /\ events' = IF room THEN Append(events, sent) ELSE events
                 /\ \A md \in SigMdReads, st \in SigStReads :
                       (room /\ PumpHandle(i, md, st)) =>
                           /\ (props.md = NoMd /\ (md.err \/ md.k # "map")) =>
                                 /\ sent.Status = ParseStatus(props.st.s)
                                 /\ sent.Title = ""
                                 /\ sent.Artist = ""
                                 /\ sent.Album = ""
                                 /\ sent.ArtUrl = ""
                           /\ (props.st = NoSt
                                  /\ (st.err \/ st.k # "string")) =>
                                 /\ sent = parseMetadata(props.md.bag, "")
                                 /\ sent.Status = StatusStopped]_vars

\* a metadata-only signal has just been handled and its snapshot, with the
\* signal's title and the status Stopped, is the last of the queue
C29_MetadataOnlyFailedStatusRead ==
    /\ pump[1] = "select"
    /\ last.op = "sig"
    /\ last.attempts = 1
    /\ psig[1].Name = PropertiesChanged
    /\ Len(psig[1].Body) >= 2
    /\ psig[1].Body[2] = BMap(SigMd(Bag2), NoSt)
    /\ last.reads = <<Read(psig[1].Sender, "PlaybackStatus")>>
    /\ events # << >>
    /\ events[Len(events)].Title = "Imagine"
    /\ events[Len(events)].Status = StatusStopped

\* ------------------------------------------------------------------------
\* Claims about the initial scan
\* ------------------------------------------------------------------------

\* the scan of Start i has visited every listed name and has not returned yet
ScanComplete(i) == pc[i] = "scan" /\ names[i] = << >>

\* the k-th name the scan visited is a player name whose owner lookup succeeded
Registered(i, k) ==
    /\ HasPlayerPrefix(scanned[i][k].name)
    /\ ~scanned[i][k].owner.err

C31_ScanToleratesPlayerFailures ==
    [][\A i \in Ids :
          /\ (pc[i] = "list" /\ pc'[i] # "list") =>
                /\ pc'[i] \in {"scan", "scanerr"}
                /\ playerNames' = playerNames
                /\ events' = events
          /\ (pc[i] = "scanerr" /\ pc'[i] # "scanerr") =>
                /\ pc'[i] = "match1"
                /\ playerNames' = playerNames
                /\ events' = events
          /\ (pc[i] = "scan" /\ pc'[i] # "scan") =>
                /\ names[i] = << >>
                /\ pc'[i] = "match1"
                /\ playerNames' = playerNames
                /\ events' = events
          /\ (pc[i] = "scan" /\ names'[i] # names[i]) =>
                /\ names'[i] = Tail(names[i])
                /\ pc'[i] = "scan"
                /\ Len(scanned'[i]) = Len(scanned[i]) + 1
                /\ IF HasPlayerPrefix(Head(names[i]))
                   THEN /\ last'.op = "scan"
                        /\ last'.fetches = 1
                        /\ Len(last'.reads) >= 1
                        /\ \A k \in 1 .. Len(last'.reads) :
                              last'.reads[k].dest = Head(names[i])
                        /\ last'.attempts <= 1
                        /\ Len(events') <= Len(events) + 1
                   ELSE /\ last'.reads = << >>
                        /\ playerNames' = playerNames
                        /\ events' = events]_vars

\* a scan has visited a service and two players: the owner lookup of the
\* first player failed and so did its fetch, the second player is registered
\* and its snapshot is on the queue
C31_SecondPlayerAfterFailedFirst ==
    /\ ScanComplete(1)
    /\ Len(scanned[1]) = 3
    /\ scanned[1][2] = [name |-> Spotify, owner |-> OwnerErr]
    /\ scanned[1][3] = [name |-> Vlc, owner |-> OwnerIs(U2)]
    /\ DOMAIN playerNames = {U2}
    /\ last.op = "scan"
    /\ last.attempts = 1
    /\ Len(events) = 1

\* ------------------------------------------------------------------------
\* Claims about fetchPlayerMetadata
\* ------------------------------------------------------------------------

\* C32: a fetch of a player's snapshot, in the scan or after an appearance
\* event, makes at most one enqueue attempt.  When the Metadata read fails the
\* fetch returns an error, with that one read made, no attempt and the queue
\* as it was; when the Metadata value is no map it returns no error, with that
\* one read made, no attempt and the queue as it was; when the PlaybackStatus
\* read fails or its value is no string it returns an error, with both reads
\* made, no attempt and the queue as it was; otherwise it makes both reads and
\* one attempt and returns no error.
C32_FetchEmitsOnlyWhenBothReadsAreGood ==
    [][\A i \in Ids :
          (\/ /\ pc[i] = "scan"
              /\ names'[i] # names[i]
              /\ HasPlayerPrefix(Head(names[i]))
           \/ /\ pump[i] = "handle"
              /\ pump'[i] = "select"
              /\ Appearance(psig[i])) =>
             LET name == IF pump[i] = "handle" THEN psig[i].Body[1].n
                         ELSE Head(names[i])
                 r1 == <<Read(name, "Metadata")>>
                 r2 == <<Read(name, "Metadata"), Read(name, "PlaybackStatus")>>
                 None(e, rs) ==
                     /\ last'.fetchErr = e
                     /\ last'.reads = rs
                     /\ last'.attempts = 0
                     /\ events' = events
             IN  /\ last'.fetches = 1
                 /\ last'.attempts <= 1
                 /\ \A md \in SigMdReads, st \in SigStReads :
                       (\/ PumpHandle(i, md, st)
                        \/ \E ow \in SigOwners : ScanStep(i, ow, md, st)) =>
                           IF md.err THEN None(TRUE, r1)
                           ELSE IF md.k # "map" THEN None(FALSE, r1)
                           ELSE IF st.err \/ st.k # "string"
                           THEN None(TRUE, r2)
                           ELSE /\ ~last'.fetchErr
                                /\ last'.reads = r2
                                /\ last'.attempts = 1]_vars

\* the fetch of a scanned player has just returned without error and without
\* an enqueue attempt, after the Metadata read alone: the value was no map
C32_NonMapMetadataSkipped ==
    \E i \in Ids :
        /\ pc[i] = "scan"
        /\ last.op = "scan"
        /\ last.fetches = 1
        /\ ~last.fetchErr
        /\ last.attempts = 0
        /\ Len(last.reads) = 1
        /\ last.reads[1].prop = "Metadata"
        /\ events = << >>

\* ------------------------------------------------------------------------
\* Claims about what the handlers leave alone
\* ------------------------------------------------------------------------

\* the event names a player and has three fields
PlayerEvent(sig) ==
    /\ Len(sig.Body) >= 3
    /\ sig.Body[1].k = "string"
    /\ HasPlayerPrefix(sig.Body[1].n)

\* C33: handling an ownership-change event that is not the appearance of a
\* player name (a field that is no string counting as the empty owner, as
\* the handler reads it) reads no property, fetches nothing, attempts no
\* enqueue and leaves the queue as it was.  When the event has fewer than
\* three fields or names no player, the registry is left as it was too; a
\* disappearance and a transfer change the registry only.
C33_OnlyAppearancesFetch ==
    [][\A i \in Ids :
          (/\ pump[i] = "handle"
           /\ pump'[i] = "select"
           /\ psig[i].Name = NameOwnerChanged
           /\ ~(/\ PlayerEvent(psig[i])
                /\ AsString(psig[i].Body[2]) = EmptyName
                /\ AsString(psig[i].Body[3]) # EmptyName)) =>
             /\ last'.reads = << >>
             /\ last'.fetches = 0
             /\ last'.attempts = 0
             /\ events' = events
             /\ panicked' = panicked
             /\ lastDropWarning' = lastDropWarning
             /\ ~PlayerEvent(psig[i]) => playerNames' = playerNames]_vars

\* a transfer of a registered player has just been handled: the registry has
\* changed, nothing was read and the queue is empty
C33_TransferHandledWithoutFetch ==
    /\ pump[1] = "select"
    /\ last.op = "noc"
    /\ Transfer(psig[1])
    /\ psig[1].Body[2].n # psig[1].Body[3].n
    /\ getPlayerName(playerNames, psig[1].Body[3].n) = psig[1].Body[1].n
    /\ last.reads = << >>
    /\ last.fetches = 0
    /\ events = << >>
    /\ delivered = 1

\* C34: handling a property-change signal leaves the registry as it was, and
\* what it does to the queue, the reads it makes and the enqueue attempt it
\* makes are those of the same signal handled with an empty registry, in
\* which the sender has no entry.
C34_RegistryIsDiagnosticOnly ==
    [][\A i \in Ids :
          (/\ pump[i] = "handle"
           /\ pump'[i] = "select"
           /\ psig[i].Name # NameOwnerChanged) =>
             /\ playerNames' = playerNames
             /\ \A md \in SigMdReads, st \in SigStReads :
                   PumpHandle(i, md, st) =>
                       LET r == handleSignal(psig[i], EmptyRegistry, events,
                                             closed, md, st)
                       IN  /\ events' = r.q
                           /\ last'.attempts = r.attempts
                           /\ last'.reads = r.reads]_vars

\* a well-typed signal of a sender without registry entry has just been
\* handled, and its snapshot is on the queue, next to a registered player
C34_UnknownSenderEmitted ==
    /\ pump[1] = "select"
    /\ last.op = "sig"
    /\ last.attempts = 1
    /\ psig[1].Name = PropertiesChanged
    /\ ~Malformed(psig[1])
    /\ psig[1].Sender \notin DOMAIN playerNames
    /\ playerNames # EmptyRegistry
    /\ events # << >>
    /\ events[Len(events)].Title = "Imagine"

\* ------------------------------------------------------------------------
\* Claims about the pump and cancellation
\* ------------------------------------------------------------------------

\* C35: once the context of a pump is done, by the token or by Stop, the pump
\* takes no further signal from its channel to handle it.
C35_NoSignalTakenAfterCancellation ==
    [][\A i \in Ids :
          (Done(i) /\ pump[i] = "select") => pump'[i] # "handle"]_vars

\* ------------------------------------------------------------------------
\* Claims about the drop warning
\* ------------------------------------------------------------------------

\* a handler that may enqueue has just run
EnqueueStep ==
    \E i \in Ids :
        \/ pump[i] = "handle" /\ pump'[i] = "select"
        \/ pc[i] = "scan" /\ names'[i] # names[i]

\* C36: two warnings of a dropped snapshot are never logged less than
\* WarningInterval apart, whichever handler dropped, and a snapshot dropped
\* WarningInterval or more after the previous warning (or with none before)
\* logs one.
C36_DropWarningsRateLimited ==
    [][/\ \A k \in 1 .. Len(warnings') - 1 :
             warnings'[k + 1] - warnings'[k] >= WarningInterval
       /\ (EnqueueStep /\ last' # NoStep /\ last'.dropped
              /\ (warnings = << >>
                    \/ clock - warnings[Len(warnings)] >= WarningInterval))
            => warnings' = Append(warnings, clock)]_vars

\* a second warning has been logged, after a drop inside the interval that
\* logged none
C36_SecondWarningAfterSilentDrop ==
    /\ Len(warnings) = 2
    /\ last # NoStep
    /\ last.dropped
    /\ ~last.warned
    /\ clock - warnings[2] < WarningInterval
    /\ clock > warnings[2]

\* ------------------------------------------------------------------------
\* Claims about the end of the monitor
\* ------------------------------------------------------------------------

C38_FailedStartNotRunning ==
    [][\A i \in Ids :
          (pc[i] \in {"connect", "match1"} /\ pc'[i] = "failed") =>
              ~running']_vars

\* ------------------------------------------------------------------------
\* Claims about the engine's loop and the shutdown
\* ------------------------------------------------------------------------

\* C39: once Engine.Stop has restored the original wallpaper, the desktop
\* shows it: no run of the loop applies a generated wallpaper afterwards.
C39_RestoredWallpaperStays ==
    restored >= 1 => desktop = originalWallpaper

\* C40: once Events() is closed a started runLoop ends, whether or not ctx is
\* ever cancelled; and when it ends with ctx not cancelled, the channel is
\* closed and empty and every snapshot the monitor has put on it has been
\* received.
C40_ClosedQueueDrainedThenLoopEnds ==
    /\ (closed /\ loop # "off") ~> (loop = "exited")
    /\ [][(loop = "select" /\ loop' = "exited" /\ ~tokenFired) =>
             /\ closed
             /\ events = << >>
             /\ Len(arrivals) = emitted]_vars

\* the loop has ended by the closure, ctx not cancelled, after it received
\* two snapshots from the closed channel
C40_TwoSnapshotsReadAfterClose ==
    /\ loop = "exited"
    /\ ~tokenFired
    /\ closed
    /\ Len(arrivals) >= 2
    /\ arrivals[Len(arrivals)].closed
    /\ arrivals[Len(arrivals) - 1].closed

====
